---- MODULE Spec2Model ----
(***************************************************************************)
(* FloatView: the seed-growth region detector (seed_growth_core.py) and    *)
(* the change-triggered re-detection loops (adaptive_block_monitor.py,     *)
(* pip_video_browser.py).                                                  *)
(***************************************************************************)
EXTENDS Integers, Sequences, FiniteSets, TLC

VARIABLES
    screen_pixels,   \* the frame of the pass: [width, height, sq, bg, fg]
    config,          \* Config: lookahead_pixels, wall_thickness, color_mode, ...
    exclusion_zone,  \* <<x1,y1,x2,y2>> or NoZone
    num_seeds, num_keep, no_overlap,
    seeds,           \* sequence of Seed records, index = seed_idx + 1
    active_seeds,    \* sequence of indices into seeds
    pc,              \* position inside grow_seeds
    loop_i,          \* position of the running for-loop over active_seeds
    round_area,      \* get_area() of every seed at the end of the previous round
    start_rect,      \* get_coords() of every seed as constructed
    sweep,           \* the running round: the seeds at its start and each seed's next step
    top_seeds,       \* selected indices into seeds (original_idx + 1)
    result,          \* the returned list of <<coords, area>>
    program,         \* which monitor runs: "adaptive" or "pip"
    monitoring,      \* self.monitoring / self.monitoring_enabled
    camera,          \* the capture handle: "none", "open" or "released"
    window_alive,    \* adaptive monitor: results_window not yet destroyed
    mon_pc,          \* position of the monitor thread
    screen_capture,  \* what the last camera.grab() of the loop returned
    previous_hashes, \* the stored fingerprint: a set of <<block_key, hash>>
    reported,        \* tracked_rect / the arguments of the last rectangle_detected
    change_threshold,
    last_frame,      \* the last frame that passed the checks of the loop (or the initial one)
    last_iter,       \* what the last loop iteration did
    handoff,         \* calls queued for the GUI thread by the monitor thread
    presented,       \* the rectangle the consumer shows: detected_rect / the canvas
    call,            \* a call of a pure function: its name and arguments
    ret              \* what the call returned

growVars == <<screen_pixels, config, exclusion_zone, num_seeds, num_keep, no_overlap,
              seeds, active_seeds, pc, loop_i, round_area, start_rect, sweep, top_seeds,
              result>>

monVars == <<program, monitoring, camera, window_alive, mon_pc, screen_capture,
             previous_hashes, reported, change_threshold, last_frame, last_iter,
             handoff, presented, call, ret>>

\* the monitors' variables without the record of the last call
loopVars == <<program, monitoring, camera, window_alive, mon_pc, screen_capture,
              previous_hashes, reported, change_threshold, last_frame, last_iter,
              handoff, presented>>

vars == <<growVars, monVars>>

\* ------------------------------------------------------------------ bounds
MaxLookahead == 2
MaxGrowthPixels == 2
MaxWallThickness == 2
MaxSampleRate == 2
MaxSeeds == 2
MaxJitter == 4
MaxKeep == 3

\* ------------------------------------------------------------------ helpers
Min(a, b) == IF a < b THEN a ELSE b
Max(a, b) == IF a > b THEN a ELSE b

\* Python int(): truncation toward zero of the rational n/d (d > 0)
IntTrunc(n, d) == IF n >= 0 THEN n \div d ELSE -((-n) \div d)

NoZone == <<>>

\* no round of grow_seeds is running
NoSweep == [start |-> <<>>, at |-> <<>>, mixed |-> FALSE]

Walls == {"top", "bottom", "left", "right"}

\* numpy basic slice a:b on an axis of length n: the half-open index range <<lo, hi>>
SliceIdx(i, n) == IF i < 0 THEN Max(0, i + n) ELSE Min(i, n)
Slice(a, b, n) == <<SliceIdx(a, n), Max(SliceIdx(a, n), SliceIdx(b, n))>>

\* a band of the frame: rows [r[1], r[2]) and columns [c[1], c[2])
Band(r, c) == [rows |-> r, cols |-> c]
BandH(b) == b.rows[2] - b.rows[1]
BandW(b) == b.cols[2] - b.cols[1]

\* the frame's pixel at column x, row y: a triple of channels
Pixel(f, x, y) ==
    IF f.sq[1] <= x /\ x < f.sq[3] /\ f.sq[2] <= y /\ y < f.sq[4] THEN f.fg ELSE f.bg

\* ------------------------------------------------------------------ comparators
RECURSIVE RowSum(_, _, _, _, _, _)
RowSum(f, y, x, xend, step, ch) ==
    IF x >= xend THEN 0 ELSE Pixel(f, x, y)[ch] + RowSum(f, y, x + step, xend, step, ch)

RECURSIVE BandSum(_, _, _, _, _, _)
BandSum(f, b, y, ystep, xstep, ch) ==
    IF y >= b.rows[2] THEN 0
    ELSE RowSum(f, y, b.cols[1], b.cols[2], xstep, ch) + BandSum(f, b, y + ystep, ystep, xstep, ch)

\* number of indices in range(0, n, step)
RangeCount(n, step) == IF n <= 0 THEN 0 ELSE (n + step - 1) \div step

SampleCount(b, sample_rate) == RangeCount(BandH(b), sample_rate) * RangeCount(BandW(b), sample_rate)

\* an average over every pixel of the band, whatever the stride
ChannelAvgDense(f, b, sample_rate, ch) ==
    BandSum(f, b, b.rows[1], 1, 1, ch) \div (BandH(b) * BandW(b))

ChannelAvg(f, b, sample_rate, ch) ==
    BandSum(f, b, b.rows[1], sample_rate, sample_rate, ch) \div SampleCount(b, sample_rate)

compare_avg_color_numba(f, current_pixels, next_pixels, sample_rate) ==
    IF SampleCount(current_pixels, sample_rate) = 0 \/ SampleCount(next_pixels, sample_rate) = 0
    THEN FALSE
    ELSE \E ch \in 1..3 :
            ChannelAvg(f, current_pixels, sample_rate, ch) # ChannelAvg(f, next_pixels, sample_rate, ch)

\* one entry of the 1-pixel-tall profile: column j of the band averaged over its rows
\* (np.zeros: an entry with no rows stays 0)
ColumnEdge(f, b, j, ch) ==
    IF BandH(b) > 0
    THEN BandSum(f, Band(b.rows, <<b.cols[1] + j, b.cols[1] + j + 1>>), b.rows[1], 1, 1, ch) \div BandH(b)
    ELSE 0

\* one entry of the 1-pixel-wide profile: row i of the band averaged over its columns
RowEdge(f, b, i, ch) ==
    IF BandW(b) > 0
    THEN RowSum(f, b.rows[1] + i, b.cols[1], b.cols[2], 1, ch) \div BandW(b)
    ELSE 0

\* a comparator whose result is always what a read outside the arrays gives
compare_corner_horizontal_unchecked(f, current_pixels, next_pixels, undef) == undef

\* corner_indices = [0, n1 // 2, n1 - 1] index both profiles, of n1 and n2 entries;
\* nopython mode does no bounds check, so an index outside either profile reads
\* whatever lies there
CornerIndices(n1) == {0, n1 \div 2, n1 - 1}
CornerInside(n1, n2) == {idx \in CornerIndices(n1) : 0 <= idx /\ idx < n1 /\ idx < n2}
ReadsOutside(n1, n2) == CornerInside(n1, n2) # CornerIndices(n1)

\* a difference at an index inside both profiles returns True; otherwise a read
\* outside them decides, with outcome `undef`
compare_corner_horizontal_numba(f, current_pixels, next_pixels, undef) ==
    LET w1 == BandW(current_pixels)
        w2 == BandW(next_pixels)
    IN  IF \E idx \in CornerInside(w1, w2) : \E ch \in 1..3 :
                ColumnEdge(f, current_pixels, idx, ch) # ColumnEdge(f, next_pixels, idx, ch)
        THEN TRUE
        ELSE IF ReadsOutside(w1, w2) THEN undef ELSE FALSE

compare_corner_vertical_numba(f, current_pixels, next_pixels, undef) ==
    LET h1 == BandH(current_pixels)
        h2 == BandH(next_pixels)
    IN  IF \E idx \in CornerInside(h1, h2) : \E ch \in 1..3 :
                RowEdge(f, current_pixels, idx, ch) # RowEdge(f, next_pixels, idx, ch)
        THEN TRUE
        ELSE IF ReadsOutside(h1, h2) THEN undef ELSE FALSE

compare_func(f, cfg, wall, current_pixels, next_pixels, undef) ==
    IF cfg.color_mode = "average"
    THEN compare_avg_color_numba(f, current_pixels, next_pixels, cfg.pixel_sample_rate)
    ELSE IF wall \in {"top", "bottom"}
         THEN compare_corner_horizontal_numba(f, current_pixels, next_pixels, undef)
         ELSE compare_corner_vertical_numba(f, current_pixels, next_pixels, undef)

\* whether the comparison of these bands reads outside the profile arrays
CompareUndefined(cfg, wall, current_pixels, next_pixels) ==
    /\ cfg.color_mode # "average"
    /\ IF wall \in {"top", "bottom"}
       THEN ReadsOutside(BandW(current_pixels), BandW(next_pixels))
       ELSE ReadsOutside(BandH(current_pixels), BandH(next_pixels))

\* ------------------------------------------------------------------ Seed
\* Config.aspect_ratio = 16 / 9
AspectNum == 16
AspectDen == 9
initial_size == 5

\* a seed whose initial rectangle is centred on the grid point
SeedCentred(center_x, center_y, seed_id) ==
    [x1 |-> center_x - IntTrunc(initial_size * AspectNum, AspectDen),
     y1 |-> center_y - initial_size,
     x2 |-> center_x + IntTrunc(initial_size * AspectNum, AspectDen),
     y2 |-> center_y + initial_size,
     seed_id |-> seed_id, growth_complete |-> FALSE,
     lock_left |-> FALSE, lock_right |-> FALSE, lock_top |-> FALSE, lock_bottom |-> FALSE]

\* Seed.__init__: the rectangle starts at the centre and extends right and down
Seed(center_x, center_y, seed_id) ==
    [x1 |-> center_x, y1 |-> center_y,
     x2 |-> center_x + IntTrunc(initial_size * AspectNum, AspectDen),
     y2 |-> center_y + initial_size,
     seed_id |-> seed_id, growth_complete |-> FALSE,
     lock_left |-> FALSE, lock_right |-> FALSE, lock_top |-> FALSE, lock_bottom |-> FALSE]

get_coords(s) == <<s.x1, s.y1, s.x2, s.y2>>

get_area(s) == Max(0, (s.x2 - s.x1) * (s.y2 - s.y1))

\* a vertical step that moves a single unlocked side by growth_pixels only
GrowVerticalSingle(s, growth_pixels) ==
    IF ~s.lock_top /\ ~s.lock_bottom
    THEN [s EXCEPT !.y1 = @ - growth_pixels, !.y2 = @ + growth_pixels]
    ELSE IF ~s.lock_top THEN [s EXCEPT !.y1 = @ - growth_pixels]
    ELSE IF ~s.lock_bottom THEN [s EXCEPT !.y2 = @ + growth_pixels]
    ELSE s

\* vertical step of grow: both sides by growth_pixels, or the one unlocked side by twice that
GrowVertical(s, growth_pixels) ==
    IF ~s.lock_top /\ ~s.lock_bottom
    THEN [s EXCEPT !.y1 = @ - growth_pixels, !.y2 = @ + growth_pixels]
    ELSE IF ~s.lock_top THEN [s EXCEPT !.y1 = @ - growth_pixels * 2]
    ELSE IF ~s.lock_bottom THEN [s EXCEPT !.y2 = @ + growth_pixels * 2]
    ELSE s

\* horizontal step of grow: the width follows int(height * aspect_ratio)
GrowHorizontal(s) ==
    LET current_height == s.y2 - s.y1
        target_width == IntTrunc(current_height * AspectNum, AspectDen)
        current_width == s.x2 - s.x1
        width_diff == target_width - current_width
    IN  IF ~s.lock_left /\ ~s.lock_right
        THEN [s EXCEPT !.x1 = @ - (width_diff \div 2), !.x2 = @ + (width_diff - (width_diff \div 2))]
        ELSE IF ~s.lock_left THEN [s EXCEPT !.x1 = @ - width_diff]
        ELSE IF ~s.lock_right THEN [s EXCEPT !.x2 = @ + width_diff]
        ELSE s

ClampToFrame(s, f) ==
    [s EXCEPT !.x1 = Max(0, @), !.y1 = Max(0, @),
              !.x2 = Min(f.width, @), !.y2 = Min(f.height, @)]

\* the four clipping statements run in sequence, each reading the result of the previous
ClipToZone(s, zone) ==
    IF zone = NoZone THEN s
    ELSE LET a == IF s.x1 < zone[1] /\ s.x2 > zone[1] THEN [s EXCEPT !.x1 = zone[1]] ELSE s
             b == IF a.x2 > zone[3] /\ a.x1 < zone[3] THEN [a EXCEPT !.x2 = zone[3]] ELSE a
             c == IF b.y1 < zone[2] /\ b.y2 > zone[2] THEN [b EXCEPT !.y1 = zone[2]] ELSE b
             d == IF c.y2 > zone[4] /\ c.y1 < zone[4] THEN [c EXCEPT !.y2 = zone[4]] ELSE c
         IN  d

\* a growth step without the early returns
grow_unguarded(s, f, cfg, zone) ==
    ClipToZone(ClampToFrame(GrowHorizontal(GrowVertical(s, cfg.growth_pixels)), f), zone)

grow(s, f, cfg, zone) ==
    IF s.growth_complete THEN s
    ELSE IF s.lock_left /\ s.lock_right THEN s
    ELSE IF s.lock_top /\ s.lock_bottom THEN s
    ELSE ClipToZone(ClampToFrame(GrowHorizontal(GrowVertical(s, cfg.growth_pixels)), f), zone)

get_wall_pixels(s, f, cfg, wall) ==
    LET thickness == cfg.wall_thickness
    IN  CASE wall = "top"    -> Band(Slice(s.y1, s.y1 + thickness, f.height), Slice(s.x1, s.x2, f.width))
          [] wall = "bottom" -> Band(Slice(s.y2 - thickness, s.y2, f.height), Slice(s.x1, s.x2, f.width))
          [] wall = "left"   -> Band(Slice(s.y1, s.y2, f.height), Slice(s.x1, s.x1 + thickness, f.width))
          [] wall = "right"  -> Band(Slice(s.y1, s.y2, f.height), Slice(s.x2 - thickness, s.x2, f.width))

\* the coordinate the wall would have after moving out by growth_pixels, clamped to the frame
NextWallPos(s, f, wall, growth_pixels) ==
    CASE wall = "top"    -> Max(0, s.y1 - growth_pixels)
      [] wall = "bottom" -> Min(f.height, s.y2 + growth_pixels)
      [] wall = "left"   -> Max(0, s.x1 - growth_pixels)
      [] wall = "right"  -> Min(f.width, s.x2 + growth_pixels)

WallPos(s, wall) ==
    CASE wall = "top" -> s.y1 [] wall = "bottom" -> s.y2
      [] wall = "left" -> s.x1 [] wall = "right" -> s.x2

\* _get_next_wall_pixels returns None when the clamped position equals the current one
NextWallIsNone(s, f, wall, growth_pixels) ==
    NextWallPos(s, f, wall, growth_pixels) = WallPos(s, wall)

get_next_wall_pixels(s, f, cfg, wall, growth_pixels) ==
    LET thickness == cfg.wall_thickness
        nxt == NextWallPos(s, f, wall, growth_pixels)
    IN  CASE wall = "top"    -> Band(Slice(nxt, nxt + thickness, f.height), Slice(s.x1, s.x2, f.width))
          [] wall = "bottom" -> Band(Slice(nxt - thickness, nxt, f.height), Slice(s.x1, s.x2, f.width))
          [] wall = "left"   -> Band(Slice(s.y1, s.y2, f.height), Slice(nxt, nxt + thickness, f.width))
          [] wall = "right"  -> Band(Slice(s.y1, s.y2, f.height), Slice(nxt - thickness, nxt, f.width))

\* rule 1: moving the wall out by lookahead_pixels leaves the frame
FrameLock(s, f, cfg, wall) ==
    CASE wall = "top"    -> s.y1 - cfg.lookahead_pixels < 0
      [] wall = "bottom" -> s.y2 + cfg.lookahead_pixels >= f.height
      [] wall = "left"   -> s.x1 - cfg.lookahead_pixels < 0
      [] wall = "right"  -> s.x2 + cfg.lookahead_pixels >= f.width

\* rule 2: the exclusion zone
ZoneLock(s, cfg, zone, wall) ==
    /\ zone # NoZone
    /\ CASE wall = "top"    -> s.y2 > zone[2] /\ s.y1 - cfg.lookahead_pixels < zone[4]
         [] wall = "bottom" -> s.y1 < zone[4] /\ s.y2 + cfg.lookahead_pixels > zone[2]
         [] wall = "left"   -> s.x2 > zone[1] /\ s.x1 - cfg.lookahead_pixels < zone[3]
         [] wall = "right"  -> s.x1 < zone[3] /\ s.x2 + cfg.lookahead_pixels > zone[1]

\* rule 3: the comparator sees a boundary between the wall's band and the band ahead
ColorLock(s, f, cfg, wall, undef) ==
    /\ ~NextWallIsNone(s, f, wall, cfg.lookahead_pixels)
    /\ compare_func(f, cfg, wall, get_wall_pixels(s, f, cfg, wall),
                    get_next_wall_pixels(s, f, cfg, wall, cfg.lookahead_pixels), undef[wall])

should_lock(s, f, cfg, zone, wall, undef) ==
    \/ FrameLock(s, f, cfg, wall)
    \/ ZoneLock(s, cfg, zone, wall)
    \/ ColorLock(s, f, cfg, wall, undef)

\* a rule that is met by any two locks
CompletionAnyTwo(s) ==
    Cardinality({w \in Walls : CASE w = "left" -> s.lock_left [] w = "right" -> s.lock_right
                                  [] w = "top" -> s.lock_top [] w = "bottom" -> s.lock_bottom}) >= 2

\* a rule that only the left and right locks together meet
CompletionLeftRight(s) == s.lock_left /\ s.lock_right

\* the completion rule at the end of check_and_lock_walls
CompletionRule(s) ==
    \/ (s.lock_left /\ s.lock_right) \/ (s.lock_top /\ s.lock_bottom)
    \/ Cardinality({w \in Walls : CASE w = "left" -> s.lock_left [] w = "right" -> s.lock_right
                                    [] w = "top" -> s.lock_top [] w = "bottom" -> s.lock_bottom}) >= 3

check_and_lock_walls(s, f, cfg, zone, undef) ==
    LET locked == [s EXCEPT
            !.lock_top    = @ \/ should_lock(s, f, cfg, zone, "top", undef),
            !.lock_bottom = @ \/ should_lock(s, f, cfg, zone, "bottom", undef),
            !.lock_left   = @ \/ should_lock(s, f, cfg, zone, "left", undef),
            !.lock_right  = @ \/ should_lock(s, f, cfg, zone, "right", undef)]
    IN  [locked EXCEPT !.growth_complete = @ \/ CompletionRule(locked)]

\* the outcomes of the comparisons that read outside their arrays: any value per wall
WallIsUnlocked(s, wall) ==
    CASE wall = "top" -> ~s.lock_top [] wall = "bottom" -> ~s.lock_bottom
      [] wall = "left" -> ~s.lock_left [] wall = "right" -> ~s.lock_right

UndefinedWalls(s, f, cfg, zone) ==
    {w \in Walls :
        /\ WallIsUnlocked(s, w)
        /\ ~FrameLock(s, f, cfg, w) /\ ~ZoneLock(s, cfg, zone, w)
        /\ ~NextWallIsNone(s, f, w, cfg.lookahead_pixels)
        /\ CompareUndefined(cfg, w, get_wall_pixels(s, f, cfg, w),
                            get_next_wall_pixels(s, f, cfg, w, cfg.lookahead_pixels))}

UndefChoices(s, f, cfg, zone) ==
    {u \in [Walls -> BOOLEAN] : \A w \in Walls \ UndefinedWalls(s, f, cfg, zone) : u[w] = FALSE}

\* ------------------------------------------------------------------ grow_seeds
\* int(np.ceil(np.sqrt(num_seeds)))
CeilSqrt(n) == CHOOSE c \in 0..n : c * c >= n /\ (c = 0 \/ (c - 1) * (c - 1) < n)

grid_cols(n) == CeilSqrt(n)
grid_rows(n) == (n + grid_cols(n) - 1) \div grid_cols(n)

\* Python floats are IEEE 754 doubles: a significand of 53 bits
MantissaBits == 53

\* a positive double is [m |-> its significand bits, first bit 1, e |-> exponent] with
\* value 0.m[1]m[2]...m[53] * 2^e; zero has no bits
FloatZero == [m |-> <<>>, e |-> 0]

RECURSIVE Pow2(_)
Pow2(n) == IF n = 0 THEN 1 ELSE 2 * Pow2(n - 1)

\* the bits of the integer c, first bit 1
RECURSIVE BitsOf(_)
BitsOf(c) == IF c = 0 THEN <<>> ELSE BitsOf(c \div 2) \o <<c % 2>>

\* the exponent e with 2^(e-1) <= a/b < 2^e, for integers a, b > 0
RECURSIVE ExpUp(_, _, _)
ExpUp(a, b, e) == IF a < b * Pow2(e) THEN e ELSE ExpUp(a, b, e + 1)

RECURSIVE ExpDown(_, _, _)
ExpDown(a, b, k) == IF a * Pow2(k + 1) < b THEN ExpDown(a, b, k + 1) ELSE 0 - k

BinExp(a, b) == IF a >= b THEN ExpUp(a, b, 1) ELSE ExpDown(a, b, 0)

\* 2^j mod b, by blocks of 16 doublings
RECURSIVE PowMod(_, _)
PowMod(j, b) == IF j <= 16 THEN Pow2(j) % b ELSE (PowMod(16, b) * PowMod(j - 16, b)) % b

\* the remainder of a * 2^j by b, and bit j after the binary point of a / b
FracRem(a, b, j) == ((a % b) * PowMod(j, b)) % b

FracBit(a, b, j) == (2 * FracRem(a, b, j - 1)) \div b

\* the significand plus one unit in the last place
BitsPlusOne(m, e) ==
    IF \A i \in 1..Len(m) : m[i] = 1
    THEN [m |-> SubSeq([i \in 1..Len(m) |-> IF i = 1 THEN 1 ELSE 0], 1, Len(m)), e |-> e + 1]
    ELSE LET last0 == CHOOSE i \in 1..Len(m) : m[i] = 0 /\ \A j \in (i + 1)..Len(m) : m[j] = 1
         IN  [m |-> SubSeq([i \in 1..Len(m) |->
                               IF i < last0 THEN m[i] ELSE IF i = last0 THEN 1 ELSE 0], 1, Len(m)),
              e |-> e]

\* round to nearest, ties to even: guard is the first dropped bit, sticky whether
\* anything beyond it is non-zero
RoundNearestEven(m, e, guard, sticky) ==
    IF guard = 1 /\ (sticky \/ m[Len(m)] = 1) THEN BitsPlusOne(m, e) ELSE [m |-> m, e |-> e]

\* the first MantissaBits bits of a / b: e bits of the integer part, the others after
\* the binary point
DivBits(a, b, e) ==
    SubSeq([i \in 1..MantissaBits |->
               IF i <= e THEN BitsOf(a \div b)[i] ELSE FracBit(a, b, i - e)], 1, MantissaBits)

\* the quotient with exponent e: its bits are computed once, as the value of m
QuotientAt(a, b, e) ==
    CHOOSE q \in {RoundNearestEven(m, e, FracBit(a, b, MantissaBits + 1 - e),
                                    FracRem(a, b, MantissaBits + 1 - e) # 0) :
                      m \in {DivBits(a, b, e)}} : TRUE

\* a / b for Python ints a >= 0, b > 0: the correctly rounded quotient
FloatDiv(a, b) ==
    IF a = 0 THEN FloatZero
    ELSE CHOOSE q \in {QuotientAt(a, b, e) : e \in {BinExp(a, b)}} : TRUE

\* the integer whose bits are the first i bits of m
RECURSIVE BitsValue(_, _)
BitsValue(m, i) == IF i = 0 THEN 0 ELSE 2 * BitsValue(m, i - 1) + m[i]

\* k times a significand: the first i bits of m are still to multiply, 13 at a time
\* from the last, with the carry of the bits below; t is k times the 13 bits plus
\* the carry
RECURSIVE MulBits(_, _, _, _)
MulBits(m, k, i, carry) ==
    IF i = 0 THEN BitsOf(carry)
    ELSE LET n == Min(i, 13)
         IN  CHOOSE p \in {MulBits(m, k, i - n, t \div Pow2(n))
                               \o [j \in 1..n |-> (t \div Pow2(n - j)) % 2] :
                               t \in {k * BitsValue(SubSeq(m, i - n + 1, i), n) + carry}} : TRUE

\* the exact bits `full` of a product whose first MantissaBits bits have exponent e,
\* rounded to a float
RoundProduct(full, e) ==
    LET extra == Len(full) - MantissaBits
        guard == IF extra >= 1 THEN full[MantissaBits + 1] ELSE 0
        sticky == \E j \in (MantissaBits + 2)..Len(full) : full[j] = 1
    IN  RoundNearestEven(SubSeq(full, 1, MantissaBits), e + extra, guard, sticky)

\* k * x for a Python int k >= 0 and a float x: the correctly rounded product
FloatMul(k, x) ==
    IF k = 0 \/ x = FloatZero THEN FloatZero
    ELSE CHOOSE p \in {RoundProduct(full, x.e) : full \in {MulBits(x.m, k, Len(x.m), 0)}} : TRUE

\* int(x) of a float x >= 0: the integer part
FloatInt(x) ==
    IF x = FloatZero \/ x.e <= 0 THEN 0 ELSE BitsValue(x.m, x.e)

\* lines 359-360
col_spacing(f, n) == FloatDiv(f.width, grid_cols(n) + 1)
row_spacing(f, n) == FloatDiv(f.height, grid_rows(n) + 1)

\* lines 369-370: center_x = int((col + 1) * col_spacing), center_y likewise
GridPoint(f, n, row, col) ==
    CHOOSE c \in {<<FloatInt(FloatMul(col + 1, cs)), FloatInt(FloatMul(row + 1, rs))>> :
                     cs \in {col_spacing(f, n)}, rs \in {row_spacing(f, n)}} : TRUE

\* the grid point of seed_idx (row-major), before jitter
GridCenter(f, n, seed_idx) ==
    GridPoint(f, n, seed_idx \div grid_cols(n), seed_idx % grid_cols(n))

\* random.randint(-jitter, jitter) on both axes, then the clamp into the frame
JitterOffsets(jitter) == IF jitter > 0 THEN (-jitter..jitter) \X (-jitter..jitter) ELSE {<<0, 0>>}

JitteredCenter(f, jitter, c, off) ==
    IF jitter > 0
    THEN <<Max(0, Min(f.width, c[1] + off[1])), Max(0, Min(f.height, c[2] + off[2]))>>
    ELSE c

CreateSeed(f, cfg, n, seed_idx, off) ==
    CHOOSE s \in {Seed(c[1], c[2], seed_idx) :
                     c \in {JitteredCenter(f, cfg.jitter, GridCenter(f, n, seed_idx), off)}} : TRUE

\* an insertion that puts a seed before the seeds of equal area: an unstable ranking
RECURSIVE InsertBeforeEqual(_, _, _)
InsertBeforeEqual(sorted, ss, i) ==
    IF sorted = <<>> THEN <<i>>
    ELSE IF get_area(ss[Head(sorted)]) > get_area(ss[i])
         THEN <<Head(sorted)>> \o InsertBeforeEqual(Tail(sorted), ss, i)
         ELSE <<i>> \o sorted

\* sorted(enumerate(seeds), key=area, reverse=True): a stable sort, so seeds of equal
\* area keep their order of index
RECURSIVE InsertByArea(_, _, _)
InsertByArea(sorted, ss, i) ==
    IF sorted = <<>> THEN <<i>>
    ELSE IF get_area(ss[Head(sorted)]) >= get_area(ss[i])
         THEN <<Head(sorted)>> \o InsertByArea(Tail(sorted), ss, i)
         ELSE <<i>> \o sorted

RECURSIVE SortPrefix(_, _)
SortPrefix(ss, k) == IF k = 0 THEN <<>> ELSE InsertByArea(SortPrefix(ss, k - 1), ss, k)

sorted_seeds(ss) == SortPrefix(ss, Len(ss))

rectangles_overlap(rect1, rect2) ==
    ~(rect1[3] < rect2[1] \/ rect2[3] < rect1[1] \/ rect1[4] < rect2[2] \/ rect2[4] < rect1[2])

\* a test against the most recently selected rectangle only
OverlapsLastSelected(ss, top, i) ==
    top # <<>> /\ rectangles_overlap(get_coords(ss[i]), get_coords(ss[top[Len(top)]]))

OverlapsSelected(ss, top, i) ==
    \E k \in 1..Len(top) : rectangles_overlap(get_coords(ss[i]), get_coords(ss[top[k]]))

\* the greedy walk over the ranked list, from position k with `top` accepted so far
RECURSIVE GreedyWalk(_, _, _, _, _)
GreedyWalk(ss, ranked, k, top, keep) ==
    IF k > Len(ranked) THEN top
    ELSE IF OverlapsSelected(ss, top, ranked[k]) THEN GreedyWalk(ss, ranked, k + 1, top, keep)
    ELSE IF Len(top) + 1 >= keep THEN Append(top, ranked[k])
    ELSE GreedyWalk(ss, ranked, k + 1, Append(top, ranked[k]), keep)

\* a prefix that stops one entry early
ListPrefixExclusive(seq, n) ==
    LET stop == IF n < 0 THEN Max(0, Len(seq) + n) ELSE Min(n, Len(seq))
    IN  SubSeq(seq, 1, stop - 1)

\* sorted_seeds[:num_keep]
ListPrefix(seq, n) ==
    LET stop == IF n < 0 THEN Max(0, Len(seq) + n) ELSE Min(n, Len(seq))
    IN  SubSeq(seq, 1, stop)

select_top_seeds(ss, keep, suppress) ==
    IF suppress THEN GreedyWalk(ss, sorted_seeds(ss), 1, <<>>, keep)
    ELSE ListPrefix(sorted_seeds(ss), keep)

ResultOf(ss, top) == [k \in 1..Len(top) |-> <<get_coords(ss[top[k]]), get_area(ss[top[k]])>>]

AreasOf(ss) == [i \in 1..Len(ss) |-> get_area(ss[i])]

\* [s for s in active_seeds if not s.growth_complete]
RECURSIVE StillGrowing(_, _)
StillGrowing(act, ss) ==
    IF act = <<>> THEN <<>>
    ELSE IF ss[Head(act)].growth_complete THEN StillGrowing(Tail(act), ss)
         ELSE <<Head(act)>> \o StillGrowing(Tail(act), ss)

\* ------------------------------------------------------------------ inputs
Black == <<0, 0, 0>>
White == <<255, 255, 255>>
Blue == <<0, 0, 255>>

Frame(w, h, sq, fg) == [width |-> w, height |-> h, sq |-> sq, bg |-> Black, fg |-> fg]

MakeConfig(lookahead, thickness, mode, jitter, growth, rate) ==
    [lookahead_pixels |-> lookahead, wall_thickness |-> thickness, color_mode |-> mode,
     jitter |-> jitter, growth_pixels |-> growth, pixel_sample_rate |-> rate]

ColorModes == {"average", "corners"}

\* the frame of end-to-end scenarios A and B, and their configuration
ScenarioFrame == Frame(100, 100, <<10, 10, 90, 90>>, White)
ScenarioConfig == MakeConfig(1, 1, "average", 0, 1, 1)
ScenarioZone == <<40, 40, 60, 60>>

SmallFrames ==
    {Frame(24, 14, <<0, 0, 0, 0>>, White),
     Frame(24, 14, <<4, 3, 20, 11>>, White),
     Frame(12, 9, <<3, 2, 9, 7>>, Blue)}

\* the centre zone the monitors pass (25% x 33% of the frame), and one in a corner
CenterZone(f) ==
    LET ew == IntTrunc(f.width * 25, 100)
        eh == IntTrunc(f.height * 33, 100)
        ex == (f.width - ew) \div 2
        ey == (f.height - eh) \div 2
    IN  <<ex, ey, ex + ew, ey + eh>>

CornerZone == <<0, 0, 6, 3>>

ZonesOf(f) == {NoZone, CenterZone(f), CornerZone}

SweepConfigs ==
    {MakeConfig(l, 1, m, 0, g, 1) : l \in 0..MaxLookahead, m \in ColorModes, g \in 1..MaxGrowthPixels}
    \cup {MakeConfig(1, t, m, 0, 1, r) : t \in 1..MaxWallThickness, m \in ColorModes, r \in 1..MaxSampleRate}

JitterConfigs == {MakeConfig(1, 1, "average", j, 1, 1) : j \in 1..MaxJitter}

Input(f, z, c, n) == [frame |-> f, zone |-> z, cfg |-> c, n |-> n]

FrameZones == UNION {{<<f, z>> : z \in ZonesOf(f)} : f \in SmallFrames}

GrowInputs ==
    {Input(fz[1], fz[2], c, n) : fz \in FrameZones, c \in SweepConfigs, n \in 1..MaxSeeds}
    \cup {Input(fz[1], fz[2], c, 1) : fz \in FrameZones, c \in JitterConfigs}
    \cup {Input(ScenarioFrame, z, ScenarioConfig, 1) : z \in {NoZone, ScenarioZone}}

\* calls with a non-positive growth_pixels or num_seeds; pixel_sample_rate stays 1
InvalidInputs ==
    {Input(fz[1], fz[2], MakeConfig(1, 1, m, 0, 0, 1), n) :
        fz \in FrameZones, m \in ColorModes, n \in (0 - 1)..MaxSeeds}
    \cup {Input(fz[1], fz[2], MakeConfig(1, 1, m, 0, 1, 1), n) :
        fz \in FrameZones, m \in ColorModes, n \in (0 - 1)..0}

\* ------------------------------------------------------------------ fingerprints
\* a captured frame: height, width and rows of pixel values, px[y + 1][x + 1]
NoFrame == [height |-> 0, width |-> 0, px |-> <<>>]
NoRect == <<>>
NoHashes == {}

\* range(0, n, step)
RangeOf(n, step) == {i \in 0..(n - 1) : i % step = 0}

\* pixels.tobytes() of screen_pixels[y:y_end, x:x_end]: the values in row-major order
RECURSIVE BlockBytes(_, _, _, _, _)
BlockBytes(f, y, y_end, x, x_end) ==
    IF y >= y_end THEN <<>>
    ELSE SubSeq(f.px[y + 1], x + 1, x_end) \o BlockBytes(f, y + 1, y_end, x, x_end)

\* hashlib.md5(..).hexdigest(): one digest per byte string
get_block_hash(bytes) == <<"md5", bytes>>

\* a grid that leaves out the smaller blocks of the last row and column
get_whole_block_hashes(f, block_size) ==
    {<<(<<y \div block_size, x \div block_size>>),
       get_block_hash(BlockBytes(f, y, y + block_size, x, x + block_size))>> :
        y \in {i \in RangeOf(f.height, block_size) : i + block_size <= f.height},
        x \in {i \in RangeOf(f.width, block_size) : i + block_size <= f.width}}

get_all_block_hashes(f, block_size) ==
    {<<(<<y \div block_size, x \div block_size>>),
       get_block_hash(BlockBytes(f, y, Min(y + block_size, f.height), x, Min(x + block_size, f.width)))>> :
        y \in RangeOf(f.height, block_size), x \in RangeOf(f.width, block_size)}

\* a count that also takes the keys found only in prev
calculate_change_symmetric(prev, curr) ==
    IF prev = NoHashes THEN <<0, 1>>
    ELSE LET changed_count == Cardinality({e \in curr : e \notin prev})
                                + Cardinality({d \in prev : \A e \in curr : e[1] # d[1]})
             total_count == Cardinality(curr)
         IN  IF total_count > 0 THEN <<100 * changed_count, total_count>> ELSE <<0, 1>>

\* calculate_change_percentage as the exact fraction <<100 * changed_count, total_count>>
\* (<<0, 1>> for the two early results 0.0 and 0)
calculate_change_percentage(prev, curr) ==
    IF prev = NoHashes THEN <<0, 1>>
    ELSE LET changed_count == Cardinality({e \in curr : e \notin prev})
             total_count == Cardinality(curr)
         IN  IF total_count > 0 THEN <<100 * changed_count, total_count>> ELSE <<0, 1>>

\* a comparison that also fires when the percentage equals the threshold
ReachesThreshold(percentage, threshold) == percentage[1] >= threshold * percentage[2]

\* change_percentage > threshold
ExceedsThreshold(percentage, threshold) == percentage[1] > threshold * percentage[2]

\* ------------------------------------------------------------------ monitor loops
MonBlockSize == 2
MaxQueued == 2

\* what the capture source can deliver: frames of 2 x 3 pixels (two blocks, the
\* second one narrower) with 2, 3 or 4 channels, a 2-dimensional array, nothing, or
\* an exception of the capture call
MonFrame(rows) == [height |-> Len(rows), width |-> Len(rows[1]), px |-> rows]

CaptureFrames ==
    {MonFrame(<<(<<0, 0, 0>>), (<<0, 0, 0>>)>>),
     MonFrame(<<(<<0, 0, 1>>), (<<0, 0, 0>>)>>),
     MonFrame(<<(<<1, 1, 1>>), (<<1, 1, 1>>)>>)}

\* arrays with 3 or 4 entries on the last axis pass the checks of the loop
UsableChannels == {3, 4}

Capture(kind, channels, frame, handle) ==
    [kind |-> kind, channels |-> channels, frame |-> frame, handle |-> handle]

Captures(handle) ==
    {Capture("frame", c, f, handle) : c \in UsableChannels, f \in CaptureFrames}
    \cup {Capture("frame", 2, MonFrame(<<(<<0, 0, 0>>), (<<0, 0, 0>>)>>), handle)}
    \cup {Capture(k, 0, NoFrame, handle) : k \in {"none", "ndim2", "raises"}}

\* a handle that was released gives no frame any more
CapturesAfterRelease(handle) ==
    {Capture(k, 0, NoFrame, handle) : k \in {"none", "raises"}}

NoCapture == Capture("none", 0, NoFrame, "none")

\* `if screen_pixels.ndim < 3: continue`, and the IndexError of
\* screen_pixels[:, :, [2, 1, 0]] when the last axis has fewer than 3 entries
FrameIsSkipped(c) == c.kind = "ndim2" \/ (c.kind = "frame" /\ c.channels < 3)

ThresholdChoices == {0, 50}

\* what a growth pass hands back to _search_and_update / _search_and_emit: the list
\* returned by grow_seeds(num_keep = 1), or an exception caught by the caller
SearchOutcomes ==
    {[kind |-> "returned", results |-> <<(<<r, 2>>)>>] : r \in {<<0, 0, 2, 1>>, <<1, 1, 3, 2>>}}
    \cup {[kind |-> "error", results |-> <<>>]}

NoIteration ==
    [kind |-> "none", capture |-> "none", channels |-> 0, frame |-> NoFrame,
     prev |-> NoHashes, searched |-> FALSE, before |-> NoRect, after |-> NoRect,
     emitted |-> FALSE, flag_at_start |-> TRUE, flag_at_emit |-> TRUE]

SkippedIteration(c) ==
    [NoIteration EXCEPT !.kind = "skipped", !.capture = c.kind, !.channels = c.channels,
                        !.prev = previous_hashes, !.before = reported, !.after = reported]

NoCall == [op |-> "none"]
NoRet == <<>>

\* the state after construction, before run() / start_screen_monitoring()
MonitorNotRunning ==
    /\ program = "adaptive"
    /\ monitoring = TRUE
    /\ camera = "none"
    /\ window_alive = TRUE
    /\ mon_pc = "idle"
    /\ screen_capture = NoCapture
    /\ previous_hashes = NoHashes
    /\ reported = NoRect
    /\ change_threshold = 50
    /\ last_frame = NoFrame
    /\ last_iter = NoIteration
    /\ handoff = <<>>
    /\ presented = NoRect
    /\ call = NoCall
    /\ ret = NoRet

\* `if results:` of _search_and_update (lines 199-202) and _search_and_emit (870-873):
\* results[0] is read only when the list is not empty
ResultIsReported(results) == results # <<>>

ReportOf(outcome, old) ==
    IF outcome.kind = "returned" /\ ResultIsReported(outcome.results)
    THEN outcome.results[1][1] ELSE old

\* whether _search_and_update / _search_and_emit reports a rectangle
Reports(outcome) == outcome.kind = "returned" /\ ResultIsReported(outcome.results)

\* rectangle_detected.emit(x1, y1, x2, y2, area): one queued call of the slot
rectangle_detected_emit(queue, outcome) ==
    Append(queue, outcome.results[1][1] \o <<outcome.results[1][2]>>)

\* a slot that keeps the vertical coordinates it had
on_rectangle_detected_partial(msg, old) ==
    IF old = NoRect THEN SubSeq(msg, 1, 4) ELSE <<msg[1], old[2], msg[3], old[4]>>

\* on_rectangle_detected: self.detected_rect = (x1, y1, x2, y2)
on_rectangle_detected(msg, old) == SubSeq(msg, 1, 4)

\* what the search leaves in the hand-off queue
QueueAfterSearch(prog, queue, outcome) ==
    IF prog = "pip" /\ Reports(outcome) THEN rectangle_detected_emit(queue, outcome) ELSE queue

GrowIdle ==
    /\ screen_pixels = Frame(0, 0, <<0, 0, 0, 0>>, White)
    /\ config = MakeConfig(1, 1, "average", 0, 1, 1)
    /\ exclusion_zone = NoZone
    /\ num_seeds = 1 /\ num_keep = 1 /\ no_overlap = FALSE
    /\ seeds = <<>> /\ active_seeds = <<>> /\ pc = "idle" /\ loop_i = 0
    /\ round_area = <<>> /\ start_rect = <<>> /\ top_seeds = <<>> /\ result = <<>>
    /\ sweep = NoSweep

MonInit ==
    /\ program \in {"adaptive", "pip"}
    /\ monitoring = (program = "adaptive")
    /\ camera = "none"
    /\ window_alive = TRUE
    /\ mon_pc = "idle"
    /\ screen_capture = NoCapture
    /\ previous_hashes = NoHashes
    /\ reported = NoRect
    /\ change_threshold \in ThresholdChoices
    /\ last_frame = NoFrame
    /\ last_iter = NoIteration
    /\ handoff = <<>>
    /\ presented = NoRect
    /\ call = NoCall
    /\ ret = NoRet
    /\ GrowIdle

\* AdaptiveBlockMonitor.run, lines 103-129, when nothing fails: the camera, the initial
\* capture, the initial search, the canvas, the baseline and the start of the thread
AdaptiveRun ==
    /\ program = "adaptive" /\ mon_pc = "idle" /\ camera = "none"
    /\ \E f \in CaptureFrames, out \in SearchOutcomes :
          /\ reported' = ReportOf(out, reported)
          /\ previous_hashes' = get_all_block_hashes(f, MonBlockSize)
          /\ last_frame' = f
    /\ presented' = reported'
    /\ camera' = "open"
    /\ mon_pc' = "loop"
    /\ UNCHANGED <<program, monitoring, window_alive, screen_capture, change_threshold,
                   last_iter, handoff, call, ret, growVars>>

\* AdaptiveBlockMonitor.run when the initial capture returns None: line 109 raises,
\* the finally block clears the flag and releases the camera
AdaptiveRunFails ==
    /\ program = "adaptive" /\ mon_pc = "idle" /\ camera = "none"
    /\ monitoring' = FALSE
    /\ camera' = "released"
    /\ mon_pc' = "exited"
    /\ UNCHANGED <<program, window_alive, screen_capture, previous_hashes, reported,
                   change_threshold, last_frame, last_iter, handoff, presented,
                   call, ret, growVars>>

\* AdaptiveBlockMonitor.stop (ESC), then mainloop returns into the finally of run
AdaptiveStop ==
    /\ program = "adaptive" /\ window_alive /\ camera = "open"
    /\ monitoring' = FALSE
    /\ window_alive' = FALSE
    /\ camera' = "released"
    /\ UNCHANGED <<program, mon_pc, screen_capture, previous_hashes, reported,
                   change_threshold, last_frame, last_iter, handoff, presented,
                   call, ret, growVars>>

\* PIPVideoBrowser.start_screen_monitoring, lines 671-693
PipStart ==
    /\ program = "pip" /\ window_alive
    /\ mon_pc \in {"idle", "exited"}
    /\ monitoring' = TRUE
    /\ \/ camera' = "open" /\ mon_pc' = "init"
       \/ camera = "none" /\ camera' = "none" /\ mon_pc' = mon_pc
    /\ UNCHANGED <<program, window_alive, screen_capture, previous_hashes, reported,
                   change_threshold, last_frame, last_iter, handoff, presented,
                   call, ret, growVars>>

\* PIPVideoBrowser.stop_screen_monitoring, lines 759-772
PipStop ==
    /\ program = "pip" /\ window_alive
    /\ monitoring
    /\ monitoring' = FALSE
    /\ UNCHANGED <<program, camera, window_alive, mon_pc, screen_capture, previous_hashes,
                   reported, change_threshold, last_frame, last_iter, handoff, presented,
                   call, ret, growVars>>

\* PIPVideoBrowser.closeEvent, lines 974-988: stop, then release the camera under the
\* lock and forget it
PipClose ==
    /\ program = "pip"
    /\ window_alive
    /\ monitoring' = FALSE
    /\ window_alive' = FALSE
    /\ camera' = "none"
    /\ UNCHANGED <<program, mon_pc, screen_capture, previous_hashes, reported,
                   change_threshold, last_frame, last_iter, handoff, presented,
                   call, ret, growVars>>

\* the GUI thread runs one queued call: the slot on_rectangle_detected (pip), or the
\* callback of results_window.after, which draws tracked_rect (adaptive)
Deliver ==
    /\ window_alive /\ handoff # <<>>
    /\ presented' = IF program = "pip" THEN on_rectangle_detected(Head(handoff), presented)
                    ELSE reported
    /\ handoff' = Tail(handoff)
    /\ UNCHANGED <<program, monitoring, camera, window_alive, mon_pc, screen_capture,
                   previous_hashes, reported, change_threshold, last_frame, last_iter,
                   call, ret, growVars>>

\* PIPVideoBrowser._monitor_loop, lines 776-803: the initial capture, search and
\* baseline; no camera, no data or an unusable array end the thread
PipLoopInit ==
    /\ program = "pip" /\ mon_pc = "init"
    /\ \/ /\ camera = "open"
          /\ \E f \in CaptureFrames, out \in SearchOutcomes :
                /\ reported' = ReportOf(out, reported)
                /\ handoff' = QueueAfterSearch(program, handoff, out)
                /\ Len(handoff') <= MaxQueued
                /\ previous_hashes' = get_all_block_hashes(f, MonBlockSize)
                /\ last_frame' = f
          /\ mon_pc' = "loop"
       \/ /\ mon_pc' = "exited"
          /\ UNCHANGED <<reported, previous_hashes, last_frame, handoff>>
    /\ last_iter' = NoIteration
    /\ UNCHANGED <<program, monitoring, camera, window_alive, screen_capture,
                   change_threshold, presented, call, ret, growVars>>

\* `while self.monitoring:` / `while self.monitoring_enabled:`, then the sleep
LoopTest ==
    /\ mon_pc = "loop"
    /\ mon_pc' = IF monitoring THEN "grab" ELSE "exited"
    /\ UNCHANGED <<program, monitoring, camera, window_alive, screen_capture,
                   previous_hashes, reported, change_threshold, last_frame, last_iter,
                   handoff, presented, call, ret, growVars>>

\* the capture: lines 145-147 and 809-815. The pip loop looks at the camera under
\* the lock and breaks when it is None; the adaptive loop uses its handle as it is
LoopCapture ==
    /\ mon_pc = "grab"
    /\ IF program = "pip" /\ camera = "none" THEN
          /\ mon_pc' = "exited"
          /\ UNCHANGED <<screen_capture, last_iter>>
       ELSE \E c \in (IF camera = "open" THEN Captures(camera) ELSE CapturesAfterRelease(camera)) :
          /\ screen_capture' = c
          /\ mon_pc' = CASE c.kind = "none" -> "loop"
                         [] c.kind = "raises" -> "exited"
                         [] OTHER -> "captured"
          /\ last_iter' = IF c.kind = "none" THEN SkippedIteration(c) ELSE last_iter
    /\ UNCHANGED <<program, monitoring, camera, window_alive, previous_hashes, reported,
                   change_threshold, last_frame, handoff, presented, call, ret, growVars>>

\* a test that also fires when the percentage equals the threshold
RescanAtThreshold(prev, curr, threshold) ==
    ReachesThreshold(calculate_change_percentage(prev, curr), threshold)

\* whether the rescan runs: `if change_percentage > change_threshold`
RescanTriggered(prev, curr, threshold) ==
    ExceedsThreshold(calculate_change_percentage(prev, curr), threshold)

\* a baseline that is replaced only when the rescan ran
StoredOnRescan(prev, curr, rescanned) == IF rescanned THEN curr ELSE prev

\* the fingerprint kept for the next comparison: `self.previous_hashes = current_hashes`
StoredAfterIteration(prev, curr, rescanned) == curr

\* the checks of the frame, the fingerprint and the comparison: lines 149-162 and 817-828
LoopProcess ==
    /\ mon_pc = "captured"
    /\ IF FrameIsSkipped(screen_capture) THEN
          /\ last_iter' = SkippedIteration(screen_capture)
          /\ mon_pc' = "loop"
       ELSE
          LET current_hashes == get_all_block_hashes(screen_capture.frame, MonBlockSize)
              rescan == RescanTriggered(previous_hashes, current_hashes, change_threshold)
          IN  /\ last_iter' = [NoIteration EXCEPT
                                  !.kind = "processing", !.capture = screen_capture.kind,
                                  !.channels = screen_capture.channels,
                                  !.frame = screen_capture.frame, !.prev = previous_hashes,
                                  !.searched = rescan, !.before = reported, !.after = reported,
                                  !.flag_at_start = monitoring]
              /\ mon_pc' = IF rescan THEN "searching" ELSE "store"
    /\ UNCHANGED <<program, monitoring, camera, window_alive, screen_capture,
                   previous_hashes, reported, change_threshold, last_frame, handoff,
                   presented, call, ret, growVars>>

\* _search_and_update (lines 172-205) / _search_and_emit (839-877): the growth pass
\* on the new frame and the report of its first result
SearchStep ==
    /\ mon_pc = "searching"
    /\ \E out \in SearchOutcomes :
          /\ reported' = ReportOf(out, reported)
          /\ handoff' = QueueAfterSearch(program, handoff, out)
          /\ Len(handoff') <= MaxQueued
          /\ last_iter' = [last_iter EXCEPT !.after = reported', !.emitted = Reports(out),
                                            !.flag_at_emit = monitoring]
    /\ mon_pc' = "store"
    /\ UNCHANGED <<program, monitoring, camera, window_alive, screen_capture,
                   previous_hashes, change_threshold, last_frame, presented,
                   call, ret, growVars>>

\* the end of an iteration: lines 166-167 and 832. results_window.after raises on
\* a destroyed window and the outer except ends the adaptive loop before line 167
LoopStore ==
    /\ mon_pc = "store"
    /\ IF program = "adaptive" /\ ~window_alive THEN
          /\ mon_pc' = "exited"
          /\ last_iter' = [last_iter EXCEPT !.kind = "aborted"]
          /\ UNCHANGED <<previous_hashes, last_frame, handoff>>
       ELSE
          /\ handoff' = IF program = "adaptive" THEN Append(handoff, <<"redraw">>) ELSE handoff
          /\ Len(handoff') <= MaxQueued
          /\ previous_hashes' = StoredAfterIteration(previous_hashes,
                                    get_all_block_hashes(last_iter.frame, MonBlockSize),
                                    last_iter.searched)
          /\ last_frame' = last_iter.frame
          /\ last_iter' = [last_iter EXCEPT !.kind = "processed"]
          /\ mon_pc' = "loop"
    /\ screen_capture' = NoCapture
    /\ UNCHANGED <<program, monitoring, camera, window_alive, reported, change_threshold,
                   presented, call, ret, growVars>>

\* the steps of the monitor thread
ThreadStep == PipLoopInit \/ LoopTest \/ LoopCapture \/ LoopProcess \/ SearchStep \/ LoopStore

MonNext ==
    \/ AdaptiveRun \/ AdaptiveRunFails \/ AdaptiveStop
    \/ PipStart \/ PipStop \/ PipClose \/ Deliver
    \/ PipLoopInit \/ LoopTest \/ LoopCapture \/ LoopProcess \/ SearchStep \/ LoopStore

MonitorSpec == MonInit /\ [][MonNext]_vars

\* ------------------------------------------------------------------ the fingerprint functions alone
MaxBlocks == 3
MaxBlockSize == 2

BlockKeys == {<<0, i>> : i \in 0..(MaxBlocks - 1)}
HashValues == {get_block_hash(<<v>>) : v \in {0, 1}}

\* the dicts over BlockKeys: sets of <<key, hash>> with one entry per key
Dicts ==
    {d \in SUBSET (BlockKeys \X HashValues) : \A e1, e2 \in d : e1[1] = e2[1] => e1 = e2}

RatioCalls == {[op |-> "ratio", prev |-> p, curr |-> c] : p \in Dicts, c \in Dicts}

\* every frame of 2 x 3 pixels with values 0 and 1
PairFrames == {[height |-> 2, width |-> 3, px |-> p] : p \in [1..2 -> [1..3 -> {0, 1}]]}

\* a 100 x 100 frame whose pixels are 1 at the given <<x, y>> positions and 0 elsewhere
DotFrame(dots) ==
    [height |-> 100, width |-> 100,
     px |-> [y \in 1..100 |-> [x \in 1..100 |-> IF <<x - 1, y - 1>> \in dots THEN 1 ELSE 0]]]

\* five pixels in five different blocks of the 10-pixel grid
FiveDots == {<<0, 0>>, <<15, 3>>, <<99, 99>>, <<47, 52>>, <<5, 90>>}

FrameCall(f1, f2, b, threshold) ==
    [op |-> "frames", f1 |-> f1, f2 |-> f2, block_size |-> b, threshold |-> threshold]

FrameCalls ==
    {FrameCall(f1, f2, b, t) :
        f1 \in PairFrames, f2 \in PairFrames, b \in 1..MaxBlockSize, t \in ThresholdChoices}
    \cup {FrameCall(DotFrame({}), DotFrame(FiveDots), 10, 50)}

FingerprintInit ==
    /\ call \in RatioCalls \cup FrameCalls
    /\ ret = NoRet
    /\ program = "adaptive" /\ monitoring = TRUE /\ camera = "none" /\ window_alive = TRUE
    /\ mon_pc = "idle" /\ screen_capture = NoCapture /\ previous_hashes = NoHashes
    /\ reported = NoRect /\ change_threshold = 50 /\ last_frame = NoFrame
    /\ last_iter = NoIteration /\ handoff = <<>> /\ presented = NoRect
    /\ GrowIdle

\* change_percentage = calculate_change_percentage(previous_hashes, current_hashes)
ApplyRatio ==
    /\ call.op = "ratio" /\ ret = NoRet
    /\ ret' = [ratio |-> calculate_change_percentage(call.prev, call.curr)]
    /\ UNCHANGED <<program, monitoring, camera, window_alive, mon_pc, screen_capture,
                   previous_hashes, reported, change_threshold, last_frame, last_iter,
                   handoff, presented, call, growVars>>

\* the fingerprints of two frames, their change percentage and the threshold test
ApplyFingerprint ==
    /\ call.op = "frames" /\ ret = NoRet
    /\ LET prev == get_all_block_hashes(call.f1, call.block_size)
           curr == get_all_block_hashes(call.f2, call.block_size)
       IN  ret' = [prev |-> prev, curr |-> curr,
                   ratio |-> calculate_change_percentage(prev, curr),
                   rescan |-> RescanTriggered(prev, curr, call.threshold)]
    /\ UNCHANGED <<program, monitoring, camera, window_alive, mon_pc, screen_capture,
                   previous_hashes, reported, change_threshold, last_frame, last_iter,
                   handoff, presented, call, growVars>>

FingerprintSpec == FingerprintInit /\ [][ApplyRatio \/ ApplyFingerprint]_vars

\* ------------------------------------------------------------------ the pass
\* a round of the while loop of line 385: the seeds as the round found them, the next
\* step of every seed in it ("check", "grow", "done", or "idle" outside active_seeds),
\* and whether some seed grew while another was still unchecked
RoundStart(ss, active) ==
    [start |-> ss,
     at |-> [i \in 1..Len(ss) |->
                IF \E k \in 1..Len(active) : active[k] = i THEN "check" ELSE "idle"],
     mixed |-> FALSE]

Stepped(sw, i) ==
    IF sw.at[i] = "check"
    THEN [sw EXCEPT !.at[i] = "grow"]
    ELSE [sw EXCEPT !.at[i] = "done",
                    !.mixed = @ \/ \E j \in DOMAIN sw.at : sw.at[j] = "check"]

\* line 387: seed.check_and_lock_walls(pixel_sample_rate) for the seed at index i
CheckAt(ss, i, f, cfg, zone, undef) ==
    [ss EXCEPT ![i] = check_and_lock_walls(@, f, cfg, zone, undef)]

\* a growth step in which a seed yields to a larger one
GrowAtYielding(ss, i, f, cfg, zone) ==
    IF \E j \in 1..Len(ss) : get_area(ss[j]) > get_area(ss[i])
    THEN ss
    ELSE [ss EXCEPT ![i] = grow(@, f, cfg, zone)]

\* line 390: seed.grow() for the seed at index i
GrowAt(ss, i, f, cfg, zone) ==
    [ss EXCEPT ![i] = grow(@, f, cfg, zone)]

InitWith(inputs) ==
    /\ \E in \in inputs :
        /\ screen_pixels = in.frame
        /\ config = in.cfg
        /\ exclusion_zone = in.zone
        /\ num_seeds = in.n
    /\ num_keep = 1
    /\ no_overlap \in BOOLEAN
    /\ seeds = <<>>
    /\ active_seeds = <<>>
    /\ pc = "start"
    /\ loop_i = 0
    /\ round_area = <<>>
    /\ start_rect = <<>>
    /\ sweep = NoSweep
    /\ top_seeds = <<>>
    /\ result = <<>>
    /\ MonitorNotRunning

Init == InitWith(GrowInputs)

\* lines 356-383: the seed grid, then active_seeds = seeds[:]
CreateSeeds ==
    /\ pc = "start"
    /\ num_seeds >= 1
    /\ \E offs \in [1..num_seeds -> JitterOffsets(config.jitter)] :
          seeds' = [i \in 1..num_seeds |-> CreateSeed(screen_pixels, config, num_seeds, i - 1, offs[i])]
    /\ active_seeds' = [i \in 1..num_seeds |-> i]
    /\ round_area' = AreasOf(seeds')
    /\ start_rect' = [i \in 1..num_seeds |-> get_coords(seeds'[i])]
    /\ sweep' = RoundStart(seeds', active_seeds')
    /\ pc' = "check"
    /\ loop_i' = 1
    /\ UNCHANGED <<screen_pixels, config, exclusion_zone, num_seeds, num_keep, no_overlap,
                   top_seeds, result, monVars>>

\* a call of a method of one seed: the seed as it was, and the outcomes of the reads
\* outside the arrays
NoUndef == [w \in Walls |-> FALSE]

SeedCall(op, s, undef) == [op |-> op, seed |-> s, undef |-> undef]

\* lines 386-387: one iteration of `for seed in active_seeds: seed.check_and_lock_walls(..)`
CheckStep ==
    /\ pc = "check"
    /\ LET i == active_seeds[loop_i]
       IN  \E undef \in UndefChoices(seeds[i], screen_pixels, config, exclusion_zone) :
              /\ seeds' = CheckAt(seeds, i, screen_pixels, config, exclusion_zone, undef)
              /\ call' = SeedCall("check_and_lock_walls", seeds[i], undef)
              /\ ret' = seeds'[i]
              /\ sweep' = Stepped(sweep, i)
    /\ IF loop_i < Len(active_seeds)
       THEN loop_i' = loop_i + 1 /\ pc' = "check"
       ELSE loop_i' = 1 /\ pc' = "grow"
    /\ UNCHANGED <<screen_pixels, config, exclusion_zone, num_seeds, num_keep, no_overlap,
                   active_seeds, round_area, start_rect, top_seeds, result, loopVars>>

\* lines 389-390: one iteration of `for seed in active_seeds: seed.grow()`
GrowStep ==
    /\ pc = "grow"
    /\ LET i == active_seeds[loop_i]
       IN  /\ seeds' = GrowAt(seeds, i, screen_pixels, config, exclusion_zone)
           /\ call' = SeedCall("grow", seeds[i], NoUndef)
           /\ ret' = seeds'[i]
           /\ sweep' = Stepped(sweep, i)
    /\ IF loop_i < Len(active_seeds)
       THEN loop_i' = loop_i + 1 /\ pc' = "grow"
       ELSE loop_i' = 0 /\ pc' = "filter"
    /\ UNCHANGED <<screen_pixels, config, exclusion_zone, num_seeds, num_keep, no_overlap,
                   active_seeds, round_area, start_rect, top_seeds, result, loopVars>>

\* line 392 and the loop test of line 385
FilterStep ==
    /\ pc = "filter"
    /\ active_seeds' = StillGrowing(active_seeds, seeds)
    /\ round_area' = AreasOf(seeds)
    /\ sweep' = RoundStart(seeds, active_seeds')
    /\ IF active_seeds' = <<>>
       THEN pc' = "select" /\ loop_i' = 0
       ELSE pc' = "check" /\ loop_i' = 1
    /\ UNCHANGED <<screen_pixels, config, exclusion_zone, num_seeds, num_keep, no_overlap,
                   seeds, start_rect, top_seeds, result, monVars>>

\* lines 394-418: ranking, selection and the returned list
SelectStep ==
    /\ pc = "select"
    /\ top_seeds' = select_top_seeds(seeds, num_keep, no_overlap)
    /\ result' = ResultOf(seeds, top_seeds')
    /\ pc' = "done"
    /\ UNCHANGED <<screen_pixels, config, exclusion_zone, num_seeds, num_keep, no_overlap,
                   seeds, active_seeds, loop_i, round_area, start_rect, sweep, monVars>>

\* lines 356-357 for num_seeds <= 0: 0 / 0 raises ZeroDivisionError, and int() of
\* the nan that np.sqrt gives for a negative number raises ValueError
GridError ==
    /\ pc = "start"
    /\ num_seeds <= 0
    /\ pc' = "error"
    /\ UNCHANGED <<screen_pixels, config, exclusion_zone, num_seeds, num_keep, no_overlap,
                   seeds, active_seeds, loop_i, round_area, start_rect, sweep, top_seeds,
                   result, monVars>>

Next == CreateSeeds \/ CheckStep \/ GrowStep \/ FilterStep \/ SelectStep

Spec == Init /\ [][Next]_vars

\* the pass is one call running on one thread: it keeps taking steps while it can.
\* The passes of one small frame, for every lookahead_pixels.
TermInputs ==
    {Input(fz[1], fz[2], MakeConfig(l, 1, m, 0, 1, 1), n) :
        fz \in {gz \in FrameZones : gz[1].width = 12 /\ gz[2] # CornerZone},
        l \in 0..MaxLookahead, m \in ColorModes, n \in 1..MaxSeeds}

TermInit == InitWith(TermInputs)

InvalidInit == InitWith(InvalidInputs)

InvalidNext == GridError \/ Next

InvalidSpec == InvalidInit /\ [][InvalidNext]_vars

TermSpec == TermInit /\ [][Next]_vars /\ WF_vars(Next)

\* ------------------------------------------------------------------ selection alone
\* final rectangles handed to the ranking and selection of lines 394-418
CandidateRects ==
    {<<0, 0, 20, 20>>, <<10, 10, 25, 30>>, <<30, 0, 40, 20>>, <<30, 30, 40, 40>>,
     <<0, 20, 20, 30>>, <<5, 5, 5, 5>>}

MaxRanked == 4

CompleteSeed(rect, seed_id) ==
    [Seed(rect[1], rect[2], seed_id) EXCEPT !.x2 = rect[3], !.y2 = rect[4],
        !.growth_complete = TRUE, !.lock_left = TRUE, !.lock_right = TRUE]

SelectInit ==
    /\ screen_pixels = Frame(40, 40, <<0, 0, 0, 0>>, White)
    /\ config = MakeConfig(1, 1, "average", 0, 1, 1)
    /\ exclusion_zone = NoZone
    /\ num_seeds \in 1..MaxRanked
    /\ \E rects \in [1..num_seeds -> CandidateRects] :
          /\ seeds = [i \in 1..num_seeds |-> CompleteSeed(rects[i], i - 1)]
          /\ start_rect = rects
    /\ num_keep \in 1..MaxKeep
    /\ no_overlap \in BOOLEAN
    /\ active_seeds = <<>>
    /\ pc = "select"
    /\ loop_i = 0
    /\ round_area = AreasOf(seeds)
    /\ sweep = NoSweep
    /\ top_seeds = <<>>
    /\ result = <<>>
    /\ MonitorNotRunning

SelectSpec == SelectInit /\ [][SelectStep]_vars

\* ------------------------------------------------------------------ the seed grid,
\* one cell at a time

\* every num_seeds up to MaxSmallGrid, and the one large grid of MaxGridSeeds seeds
MaxSmallGrid == 10
MaxGridSeeds == 145

\* a frame wide enough for the column spacing to be an inexact float
WideFrame == Frame(122, 14, <<0, 0, 0, 0>>, White)

GridInputs ==
    {Input(WideFrame, NoZone, MakeConfig(1, 1, "average", 0, 1, 1), n) :
        n \in (1..MaxSmallGrid) \cup {MaxGridSeeds}}
    \cup {Input(f, NoZone, c, 1) : f \in SmallFrames, c \in JitterConfigs}

GridInit == InitWith(GridInputs)

\* the cell the loops of lines 364-365 are at: loop_i counts the cells row by row
GridRow == loop_i \div grid_cols(num_seeds)
GridCol == loop_i % grid_cols(num_seeds)
GridCells == grid_rows(num_seeds) * grid_cols(num_seeds)

\* lines 369-381: the body of the inner loop for a cell that gets a seed
PlaceSeed ==
    /\ pc = "start" /\ num_seeds >= 1
    /\ loop_i < GridCells
    /\ Len(seeds) < num_seeds
    /\ \E off \in JitterOffsets(config.jitter) :
          LET c == JitteredCenter(screen_pixels, config.jitter,
                                  GridPoint(screen_pixels, num_seeds, GridRow, GridCol), off)
          IN  /\ seeds' = Append(seeds, Seed(c[1], c[2], Len(seeds)))
              /\ call' = [op |-> "Seed", center |-> c, seed_id |-> Len(seeds),
                          row |-> GridRow, col |-> GridCol]
              /\ ret' = seeds'[Len(seeds')]
    /\ loop_i' = loop_i + 1
    /\ UNCHANGED <<screen_pixels, config, exclusion_zone, num_seeds, num_keep, no_overlap,
                   active_seeds, pc, round_area, start_rect, sweep, top_seeds, result,
                   loopVars>>

\* lines 366-367: `if seed_idx >= num_seeds: break` leaves the inner loop, and the
\* outer loop goes on with the next row
SkipRow ==
    /\ pc = "start" /\ num_seeds >= 1
    /\ loop_i < GridCells
    /\ Len(seeds) >= num_seeds
    /\ loop_i' = (GridRow + 1) * grid_cols(num_seeds)
    /\ UNCHANGED <<screen_pixels, config, exclusion_zone, num_seeds, num_keep, no_overlap,
                   seeds, active_seeds, pc, round_area, start_rect, sweep, top_seeds, result,
                   monVars>>

\* line 383 after the loops: active_seeds = seeds[:]
GridEnd ==
    /\ pc = "start" /\ num_seeds >= 1
    /\ loop_i >= GridCells
    /\ active_seeds' = [i \in 1..Len(seeds) |-> i]
    /\ round_area' = AreasOf(seeds)
    /\ start_rect' = [i \in 1..Len(seeds) |-> get_coords(seeds[i])]
    /\ sweep' = RoundStart(seeds, active_seeds')
    /\ pc' = "check"
    /\ loop_i' = 1
    /\ UNCHANGED <<screen_pixels, config, exclusion_zone, num_seeds, num_keep, no_overlap,
                   seeds, top_seeds, result, monVars>>

GridNext == PlaceSeed \/ SkipRow \/ GridEnd

GridSpec == GridInit /\ [][GridNext]_vars

\* ------------------------------------------------------------------ the steps of a
\* round in any order

\* lines 386-387 in list order from position k: every active seed is checked
RECURSIVE ChecksFrom(_, _, _, _, _, _)
ChecksFrom(ss, active, k, f, cfg, zone) ==
    IF k > Len(active) THEN ss
    ELSE ChecksFrom(CheckAt(ss, active[k], f, cfg, zone, NoUndef), active, k + 1, f, cfg, zone)

\* lines 389-390 in list order from position k: every active seed grows
RECURSIVE GrowsFrom(_, _, _, _, _, _)
GrowsFrom(ss, active, k, f, cfg, zone) ==
    IF k > Len(active) THEN ss
    ELSE GrowsFrom(GrowAt(ss, active[k], f, cfg, zone), active, k + 1, f, cfg, zone)

\* lines 386-390: the sequential sweep of one round
SweepRound(ss, active, f, cfg, zone) ==
    GrowsFrom(ChecksFrom(ss, active, 1, f, cfg, zone), active, 1, f, cfg, zone)

\* the round that is about to start runs its per-seed steps in any order
AnyOrderRound ==
    /\ pc = "check" /\ loop_i = 1
    /\ pc' = "any" /\ loop_i' = 0
    /\ UNCHANGED <<screen_pixels, config, exclusion_zone, num_seeds, num_keep, no_overlap,
                   seeds, active_seeds, round_area, start_rect, sweep, top_seeds, result,
                   monVars>>

\* line 387 for some seed of the round that has not been checked
AnyCheck ==
    /\ pc = "any"
    /\ \E i \in DOMAIN sweep.at :
          /\ sweep.at[i] = "check"
          /\ \E undef \in UndefChoices(seeds[i], screen_pixels, config, exclusion_zone) :
                /\ seeds' = CheckAt(seeds, i, screen_pixels, config, exclusion_zone, undef)
                /\ call' = SeedCall("check_and_lock_walls", seeds[i], undef)
                /\ ret' = seeds'[i]
                /\ sweep' = Stepped(sweep, i)
    /\ UNCHANGED <<screen_pixels, config, exclusion_zone, num_seeds, num_keep, no_overlap,
                   active_seeds, pc, loop_i, round_area, start_rect, top_seeds, result,
                   loopVars>>

\* line 390 for some seed of the round that has been checked; the round ends with the
\* last of them
AnyGrow ==
    /\ pc = "any"
    /\ \E i \in DOMAIN sweep.at :
          /\ sweep.at[i] = "grow"
          /\ seeds' = GrowAt(seeds, i, screen_pixels, config, exclusion_zone)
          /\ call' = SeedCall("grow", seeds[i], NoUndef)
          /\ ret' = seeds'[i]
          /\ sweep' = Stepped(sweep, i)
    /\ pc' = IF \A j \in DOMAIN sweep.at : sweep'.at[j] \in {"done", "idle"}
             THEN "filter" ELSE "any"
    /\ UNCHANGED <<screen_pixels, config, exclusion_zone, num_seeds, num_keep, no_overlap,
                   active_seeds, loop_i, round_area, start_rect, top_seeds, result,
                   loopVars>>

AnyOrderNext ==
    CreateSeeds \/ CheckStep \/ GrowStep \/ FilterStep \/ AnyOrderRound \/ AnyCheck \/ AnyGrow

\* the calls with more than one seed
AnyOrderInit == InitWith({in \in GrowInputs : in.n >= 2})

AnyOrderSpec == AnyOrderInit /\ [][AnyOrderNext]_vars

\* ------------------------------------------------------------------ properties
\* whether the half-open rectangle r and the half-open rectangle z have a pixel in common
SharesPixel(r, z) ==
    /\ Max(r[1], z[1]) < Min(r[3], z[3])
    /\ Max(r[2], z[2]) < Min(r[4], z[4])

IsScenario(zone) ==
    /\ screen_pixels = ScenarioFrame /\ config = ScenarioConfig
    /\ num_seeds = 1 /\ exclusion_zone = zone

Near(a, b) == a - b <= 2 /\ b - a <= 2

\* C1: the round loop of grow_seeds ends for every allowed config, lookahead_pixels = 0
\* included: every pass eventually returns
C1_Termination == <>(pc = "done")

\* C2: a seed whose initial rectangle shares no pixel with the exclusion zone never
\* shares a pixel with it, after any round and in the returned result
C2_ZoneNeverInvaded ==
    exclusion_zone # NoZone =>
        \A i \in 1..Len(seeds) :
            ~SharesPixel(start_rect[i], exclusion_zone)
                => ~SharesPixel(get_coords(seeds[i]), exclusion_zone)

\* C3: in scenario B the rectangle returned by grow_seeds does not overlap the zone
C3_ScenarioBAvoidsZone ==
    (IsScenario(ScenarioZone) /\ pc = "done") =>
        \A k \in 1..Len(result) : ~SharesPixel(result[k][1], ScenarioZone)

C5_AreaMonotone ==
    (exclusion_zone = NoZone /\ pc = "filter") =>
        \A i \in 1..Len(seeds) : get_area(seeds[i]) >= round_area[i]

\* C6: with no_overlap set, no two returned rectangles share a pixel
C6_ReturnedDisjoint ==
    (pc = "done" /\ no_overlap) =>
        \A j, k \in 1..Len(result) : j < k => ~SharesPixel(result[j][1], result[k][1])

\* a pass with suppression that returned several rectangles and left one out
C6_Witness ==
    /\ pc = "done" /\ no_overlap
    /\ Len(result) >= 2 /\ Len(result) < num_keep /\ Len(result) < Len(seeds)

\* seed i is ranked before seed j: larger area, or equal area and smaller index
RankedBefore(i, j) ==
    \/ get_area(seeds[i]) > get_area(seeds[j])
    \/ get_area(seeds[i]) = get_area(seeds[j]) /\ i < j

SelectedSet == {top_seeds[k] : k \in 1..Len(top_seeds)}

\* C7: without suppression the result has min(num_keep, num_seeds) entries, by area
\* descending, seeds of equal area by ascending seed index, and they are the top ones
C7_RankedPrefix ==
    (pc = "done" /\ ~no_overlap) =>
        /\ Len(result) = Min(num_keep, num_seeds)
        /\ Len(top_seeds) = Len(result)
        /\ \A k \in 1..Len(result) :
              /\ result[k][1] = get_coords(seeds[top_seeds[k]])
              /\ result[k][2] = get_area(seeds[top_seeds[k]])
        /\ \A j, k \in 1..Len(top_seeds) : j < k => RankedBefore(top_seeds[j], top_seeds[k])
        /\ \A i \in (1..Len(seeds)) \ SelectedSet :
              \A k \in 1..Len(top_seeds) : RankedBefore(top_seeds[k], i)

\* a ranking that had to break a tie between two seeds of equal area
C7_Witness ==
    /\ pc = "done" /\ ~no_overlap /\ Len(result) >= 2
    /\ \E k \in 1..(Len(result) - 1) : result[k][2] = result[k + 1][2] /\ result[k][2] > 0
    /\ Len(result) < Len(seeds)

\* the position of seed i in the ranking
RankPos(i) == 1 + Cardinality({j \in 1..Len(seeds) : RankedBefore(j, i)})

\* whether the greedy rule accepts seed i: its half-open rectangle has no pixel in
\* common with a selected seed ranked before it
GreedyAccepts(i) ==
    \A j \in SelectedSet :
        RankPos(j) < RankPos(i) => ~SharesPixel(get_coords(seeds[i]), get_coords(seeds[j]))

LastSelectedPos == RankPos(top_seeds[Len(top_seeds)])

\* C8: with suppression the result is the greedy walk of the ranked list: the first
\* ranked seed is accepted, a later seed is accepted iff it overlaps no accepted one,
\* the walk stops once num_keep are accepted; areas [400,300,200,100] with only the
\* first two overlapping and num_keep = 2 give [400, 200]
C8_GreedyWalk ==
    (pc = "done" /\ no_overlap) =>
        /\ Len(top_seeds) >= 1 /\ Len(top_seeds) <= num_keep
        /\ RankPos(top_seeds[1]) = 1
        /\ \A j, k \in 1..Len(top_seeds) : j < k => RankPos(top_seeds[j]) < RankPos(top_seeds[k])
        /\ \A i \in 1..Len(seeds) :
              (RankPos(i) <= LastSelectedPos \/ Len(top_seeds) < num_keep)
                  => (i \in SelectedSet <=> GreedyAccepts(i))
        /\ \A k \in 1..Len(result) :
              result[k] = <<get_coords(seeds[top_seeds[k]]), get_area(seeds[top_seeds[k]])>>
        /\ (start_rect = <<(<<0, 0, 20, 20>>), (<<10, 10, 25, 30>>), (<<30, 0, 40, 20>>), (<<30, 30, 40, 40>>)>>
              /\ num_keep = 2)
             => [k \in 1..Len(result) |-> result[k][2]] = <<400, 200>>

\* the blocks of frame f whose hash is not the one stored under the same key in prev
ChangedBlocks(prev, f) ==
    {e \in get_all_block_hashes(f, MonBlockSize) :
        \A d \in prev : d[1] = e[1] => d[2] # e[2]}

\* the change ratio of frame f against prev is strictly greater than threshold percent
RatioAbove(prev, f, threshold) ==
    Cardinality(ChangedBlocks(prev, f)) * 100
        > threshold * Cardinality(get_all_block_hashes(f, MonBlockSize))

KeysOf(d) == {e[1] : e \in d}

\* the keys of curr that prev lacks or maps to another fingerprint
ChangedKeys(prev, curr) ==
    {k \in KeysOf(curr) :
        k \notin KeysOf(prev) \/ \E e \in curr, d \in prev : e[1] = k /\ d[1] = k /\ e[2] # d[2]}

GridBlocks(f, b) ==
    {<<by, bx>> : by \in 0..((f.height + b - 1) \div b - 1), bx \in 0..((f.width + b - 1) \div b - 1)}

\* the blocks in which some pixel differs
DifferentBlocks(f1, f2, b) ==
    {k \in GridBlocks(f1, b) :
        \E y \in 0..(f1.height - 1), x \in 0..(f1.width - 1) :
            /\ y \div b = k[1] /\ x \div b = k[2]
            /\ f1.px[y + 1][x + 1] # f2.px[y + 1][x + 1]}

C13_FingerprintEquality ==
    (call.op = "frames" /\ ret # NoRet /\ call.f1 = call.f2) =>
        /\ ret.ratio[1] = 0
        /\ ~ret.rescan

\* a frame compared with itself under threshold 0
C13_Witness ==
    /\ call.op = "frames" /\ ret # NoRet /\ call.f1 = call.f2
    /\ call.threshold = 0 /\ call.block_size = 2

\* C14: while the monitoring flag stays set no single failure ends a monitoring loop:
\* a loop whose capture source is still open has ended only with the flag cleared
C14_LoopSurvival ==
    (mon_pc = "exited" /\ camera = "open") => ~monitoring

\* C15: an iteration whose capture returned no data, an array of fewer than 3
\* dimensions or a channel count other than 3 is skipped: no fingerprint, no growth
\* pass, and the stored fingerprint and the reported rectangle are as before it
C15_SkippedFrameUnchanged ==
    (last_iter.kind # "none" /\ (last_iter.capture \in {"none", "ndim2"} \/ last_iter.channels # 3)) =>
        /\ last_iter.kind = "skipped"
        /\ ~last_iter.searched
        /\ previous_hashes = last_iter.prev
        /\ reported = last_iter.before

\* C16: when a monitoring loop has ended its capture handle is no longer open, and
\* the loop never captures from a handle that was already released
C16_ScopedRelease ==
    /\ mon_pc = "exited" => camera # "open"
    /\ screen_capture.handle # "released"

\* C17: a growth pass that started with the monitoring flag set and was still
\* running when the flag was cleared reports no rectangle
C17_CancelledPassSilent ==
    (last_iter.emitted /\ last_iter.flag_at_start) => last_iter.flag_at_emit

\* C18: a call of grow_seeds with growth_pixels <= 0, pixel_sample_rate <= 0 or
\* num_seeds <= 0 ends in an error before any seed is created and before any round:
\* it is at its entry or in the error outcome, with no seed
C18_InvalidConfigFailsFast ==
    (config.growth_pixels <= 0 \/ config.pixel_sample_rate <= 0 \/ num_seeds <= 0) =>
        /\ seeds = <<>>
        /\ pc \in {"idle", "start", "error"}

\* C19: a call of grow_seeds with num_seeds >= 1 and num_keep >= 1 that returns,
\* returns at least one entry, with or without overlap suppression; the consumers
\* read results[0] only of a non-empty list and keep the last reported rectangle
\* when the list is empty
C19_NoResultGuarded ==
    (pc = "done" /\ num_seeds >= 1 /\ num_keep >= 1) =>
        /\ Len(result) >= 1
        /\ ResultIsReported(result)
        /\ \A old \in CandidateRects \cup {NoRect} :
              /\ ReportOf([kind |-> "returned", results |-> result], old) = result[1][1]
              /\ ~ResultIsReported(<<>>)
              /\ ReportOf([kind |-> "returned", results |-> <<>>], old) = old
              /\ ReportOf([kind |-> "error", results |-> <<>>], old) = old

\* overlap suppression with room for more left exactly one of several seeds
C19_Witness ==
    /\ pc = "done" /\ no_overlap
    /\ num_seeds >= 2 /\ num_keep >= 2
    /\ Len(result) = 1

\* the results a finished growth pass can hand over, as <<x1, y1, x2, y2, area>>
PassResults ==
    {o.results[1][1] \o <<o.results[1][2]>> : o \in {s \in SearchOutcomes : Reports(s)}}

\* C20: every value in the hand-off queue is one complete result of one finished growth
\* pass (or a redraw request carrying no coordinates), the rectangle the consumer
\* presents is the rectangle of one pass, never a mix of two, and no step of the
\* monitoring thread changes what is presented
C20_ThreadSafeHandOff ==
    /\ [](/\ \A i \in 1..Len(handoff) : handoff[i] \in PassResults \cup {<<"redraw">>}
          /\ presented \in {NoRect} \cup {SubSeq(r, 1, 4) : r \in PassResults})
    /\ [][ThreadStep => presented' = presented]_vars

\* the consumer presents the rectangle of a pass that replaced another rectangle
C20_Witness ==
    /\ program = "pip" /\ handoff = <<>>
    /\ last_iter.emitted
    /\ last_iter.before # NoRect /\ last_iter.before # last_iter.after
    /\ presented = last_iter.after

\* the seed lists that lines 364-381 can create, over the draws of random.randint
CreatedSeedLists ==
    {[i \in 1..num_seeds |-> CreateSeed(screen_pixels, config, num_seeds, i - 1, offs[i])] :
        offs \in [1..num_seeds -> JitterOffsets(config.jitter)]}

\* the seeds that check_and_lock_walls can leave, whatever a read outside the arrays gives
CheckOutcomes(s) ==
    {check_and_lock_walls(s, screen_pixels, config, exclusion_zone, u) : u \in [Walls -> BOOLEAN]}

\* C21: with jitter = 0 a pass is a function of its arguments: the seed creation and
\* every check_and_lock_walls call have exactly one possible outcome, which no read
\* outside an array can change (grow, the filter and the selection are functions of
\* the state), so two runs on the same arguments go through the same seed states and
\* return the same list
C21_Determinism ==
    (config.jitter = 0 /\ num_seeds >= 1) =>
        /\ pc = "start" => Cardinality(CreatedSeedLists) = 1
        /\ pc = "check" => Cardinality(CheckOutcomes(seeds[active_seeds[loop_i]])) = 1
        /\ call.op = "check_and_lock_walls" => CheckOutcomes(call.seed) = {ret}

\* a finished pass of two seeds with the corner comparators and no jitter
C21_Witness ==
    /\ config.jitter = 0 /\ config.color_mode = "corners"
    /\ num_seeds = 2 /\ pc = "done" /\ Len(result) = 1

\* 1 for a set lock, 0 otherwise
LockBit(b) == IF b THEN 1 ELSE 0

LockCount(s) ==
    LockBit(s.lock_left) + LockBit(s.lock_right) + LockBit(s.lock_top) + LockBit(s.lock_bottom)

\* C22: at the end of every check_and_lock_walls call growth_complete is true exactly
\* when left and right are both locked, or top and bottom are both locked, or at
\* least three locks are set; a seed with at most one lock, or with two locks on one
\* horizontal and one vertical wall, is still growing
C22_CompletionRule ==
    call.op = "check_and_lock_walls" =>
        /\ ret.growth_complete <=>
              \/ ret.lock_left /\ ret.lock_right
              \/ ret.lock_top /\ ret.lock_bottom
              \/ LockCount(ret) >= 3
        /\ LockCount(ret) <= 1 => ~ret.growth_complete
        /\ (LockCount(ret) = 2 /\ (ret.lock_left \/ ret.lock_right) /\ (ret.lock_top \/ ret.lock_bottom))
              => ~ret.growth_complete

\* a call that leaves a seed with two locks on adjacent walls
C22_Witness ==
    /\ call.op = "check_and_lock_walls"
    /\ LockCount(ret) = 2 /\ ret.lock_right /\ ret.lock_bottom
    /\ ~ret.growth_complete

\* the four lock flags of a seed
LocksOf(s) == <<s.lock_left, s.lock_right, s.lock_top, s.lock_bottom>>

\* C23: within a pass a wall lock that is set stays set in every later state, and a
\* seed whose growth_complete is set keeps the flag, its rectangle and its locks
\* through every later step (rounds of the other seeds and the selection)
C23_LocksTerminal ==
    [][\A i \in 1..Len(seeds) :
          /\ i <= Len(seeds')
          /\ \A k \in 1..4 : LocksOf(seeds[i])[k] => LocksOf(seeds'[i])[k]
          /\ seeds[i].growth_complete => seeds'[i] = seeds[i]]_vars

\* the second seed was grown in a round that started after the first seed was complete
C23_Witness ==
    /\ Len(seeds) = 2 /\ active_seeds = <<2>>
    /\ seeds[1].growth_complete /\ LockCount(seeds[1]) >= 2
    /\ call.op = "grow" /\ call.seed.seed_id = 1 /\ ret # call.seed
    /\ LockCount(ret) >= 1

\* whether moving the wall of s outward by lookahead_pixels puts it outside the frame,
\* the frame being the half-open ranges [0, W) x [0, H)
LeavesFrame(s, f, cfg, wall) ==
    CASE wall = "top"    -> s.y1 - cfg.lookahead_pixels < 0
      [] wall = "left"   -> s.x1 - cfg.lookahead_pixels < 0
      [] wall = "bottom" -> s.y2 + cfg.lookahead_pixels > f.height
      [] wall = "right"  -> s.x2 + cfg.lookahead_pixels > f.width

\* no comparator call of this check_and_lock_walls call reports a boundary
ComparatorSilent(c) ==
    \A w \in Walls : ~ColorLock(c.seed, screen_pixels, config, w, c.undef)

\* C24: with no exclusion zone and a comparator that reports no boundary,
\* check_and_lock_walls locks an unlocked wall exactly when moving it outward by
\* lookahead_pixels places it outside the frame, the four walls alike
C24_FrameBoundLock ==
    (call.op = "check_and_lock_walls" /\ exclusion_zone = NoZone /\ ComparatorSilent(call)) =>
        \A w \in Walls :
            WallIsUnlocked(call.seed, w) =>
                (~WallIsUnlocked(ret, w) <=> LeavesFrame(call.seed, screen_pixels, config, w))

\* the rectangle of s after moving one wall outward by d
MovedOut(s, wall, d) ==
    CASE wall = "top"    -> <<s.x1, s.y1 - d, s.x2, s.y2>>
      [] wall = "bottom" -> <<s.x1, s.y1, s.x2, s.y2 + d>>
      [] wall = "left"   -> <<s.x1 - d, s.y1, s.x2, s.y2>>
      [] wall = "right"  -> <<s.x1, s.y1, s.x2 + d, s.y2>>

\* C25: the exclusion rule of check_and_lock_walls locks an unlocked wall only when
\* the seed's rectangle is outside the zone and moving that wall outward by
\* lookahead_pixels would make the rectangle enter the zone
C25_ExclusionLockOnApproach ==
    (call.op = "check_and_lock_walls" /\ exclusion_zone # NoZone) =>
        \A w \in Walls :
            (/\ WallIsUnlocked(call.seed, w)
             /\ ~FrameLock(call.seed, screen_pixels, config, w)
             /\ ZoneLock(call.seed, config, exclusion_zone, w)) =>
                /\ ~WallIsUnlocked(ret, w)
                /\ ~SharesPixel(get_coords(call.seed), exclusion_zone)
                /\ SharesPixel(MovedOut(call.seed, w, config.lookahead_pixels), exclusion_zone)

\* the top and bottom edges the claim gives after the vertical step, before the clamp
SteppedTop(s, g) ==
    IF s.lock_top THEN s.y1 ELSE IF s.lock_bottom THEN s.y1 - 2 * g ELSE s.y1 - g

SteppedBottom(s, g) ==
    IF s.lock_bottom THEN s.y2 ELSE IF s.lock_top THEN s.y2 + 2 * g ELSE s.y2 + g

\* C26: in a grow call on a seed that is still growing, before the clamp, both
\* unlocked vertical sides move by growth_pixels each, a single unlocked side moves
\* by 2 * growth_pixels and a locked side does not move, so the height grows by
\* 2 * growth_pixels; the call's result is what the rest of grow makes of that step
C26_VerticalStep ==
    (call.op = "grow" /\ ~call.seed.growth_complete) =>
        LET g == config.growth_pixels
            top == SteppedTop(call.seed, g)
            bottom == SteppedBottom(call.seed, g)
            stepped == [call.seed EXCEPT !.y1 = top, !.y2 = bottom]
        IN  /\ ~(call.seed.lock_top /\ call.seed.lock_bottom)
            /\ (bottom - top) = (call.seed.y2 - call.seed.y1) + 2 * g
            /\ ret = ClipToZone(ClampToFrame(GrowHorizontal(stepped), screen_pixels), exclusion_zone)
            /\ exclusion_zone = NoZone =>
                  /\ ret.y1 = Max(0, top)
                  /\ ret.y2 = Min(screen_pixels.height, bottom)

\* a grow call that moved only the top edge, by twice growth_pixels, with no clamp
C26_Witness ==
    /\ call.op = "grow" /\ ~call.seed.growth_complete
    /\ call.seed.lock_bottom /\ ~call.seed.lock_top
    /\ exclusion_zone = NoZone
    /\ ret.y1 = call.seed.y1 - 2 * config.growth_pixels /\ ret.y1 > 0
    /\ ret.y2 = call.seed.y2

\* floor(height * aspect_ratio) with aspect_ratio the rational 16/9
TargetWidth(height) == (height * AspectNum) \div AspectDen

\* the width delta of a grow call: the target width of the stepped height minus the
\* width before the call
WidthDelta(s, g) ==
    TargetWidth(SteppedBottom(s, g) - SteppedTop(s, g)) - (s.x2 - s.x1)

\* the rectangle the growth step gives when nothing is clamped or clipped
SteppedRect(s, g) ==
    LET d == WidthDelta(s, g)
        left == IF s.lock_left THEN 0 ELSE IF s.lock_right THEN d ELSE d \div 2
        right == IF s.lock_right THEN 0 ELSE d - left
    IN  <<s.x1 - left, SteppedTop(s, g), s.x2 + right, SteppedBottom(s, g)>>

InsideFrame(r, f) == 0 <= r[1] /\ 0 <= r[2] /\ r[3] <= f.width /\ r[4] <= f.height

\* the zone clipping of grow leaves r as it is
NotClipped(r, zone) ==
    zone = NoZone \/
        /\ ~(r[1] < zone[1] /\ r[3] > zone[1]) /\ ~(r[3] > zone[3] /\ r[1] < zone[3])
        /\ ~(r[2] < zone[2] /\ r[4] > zone[2]) /\ ~(r[4] > zone[4] /\ r[2] < zone[4])

\* C27: after a grow call on a growing seed in which no edge is clamped to the frame
\* and no exclusion clipping applies, the width is floor(height * 16 / 9); the width
\* delta goes floor(delta / 2) to the left and the rest to the right when both
\* horizontal walls are unlocked, and entirely to the single unlocked wall otherwise;
\* the delta is never negative
C27_AspectTracking ==
    (/\ call.op = "grow" /\ ~call.seed.growth_complete
     /\ InsideFrame(SteppedRect(call.seed, config.growth_pixels), screen_pixels)
     /\ NotClipped(SteppedRect(call.seed, config.growth_pixels), exclusion_zone)) =>
        /\ get_coords(ret) = SteppedRect(call.seed, config.growth_pixels)
        /\ ret.x2 - ret.x1 = TargetWidth(ret.y2 - ret.y1)
        /\ WidthDelta(call.seed, config.growth_pixels) >= 0

\* the seeds that were still growing when the running round started, in list order
GrowingAtStart ==
    SelectSeq([i \in 1..Len(sweep.start) |-> i], LAMBDA i : ~sweep.start[i].growth_complete)

\* C28: in the sequential sweep no seed grows while another seed of the round is
\* still unchecked; the list of active seeds stays the one the round started with
\* until the round ends; and when a round ends, whatever the order in which its
\* per-seed steps ran, every seed is the one the sequential sweep of the round gives
C28_RoundsAndIndependence ==
    /\ pc \in {"check", "grow"} => ~sweep.mixed
    /\ pc \in {"check", "grow", "any", "filter"} => active_seeds = GrowingAtStart
    /\ pc = "filter" =>
          seeds = SweepRound(sweep.start, active_seeds, screen_pixels, config, exclusion_zone)

\* a round of two seeds ends in which one seed grew before the other was checked:
\* one seed's rectangle changed and the other seed completed during the round
C28_Witness ==
    /\ pc = "filter" /\ sweep.mixed /\ Len(active_seeds) = 2
    /\ \E i \in 1..2 :
          /\ get_coords(seeds[i]) # get_coords(sweep.start[i])
          /\ seeds[3 - i].growth_complete
          /\ LocksOf(seeds[3 - i]) # LocksOf(sweep.start[3 - i])
\* ceil(sqrt(n)) and ceil(n / cols), in integers
CeilRoot(n) == CHOOSE c \in 1..n : c * c >= n /\ (c - 1) * (c - 1) < n
CeilQuot(n, d) == (n + d - 1) \div d

\* the grid point of the cell (row, col) of a grid of cols x rows on a W x H frame
FloorPoint(W, H, cols, rows, row, col) ==
    <<((col + 1) * W) \div (cols + 1), ((row + 1) * H) \div (rows + 1)>>

\* the seed just constructed has the next id in row-major order and, without jitter,
\* the grid point of its cell
CellAsSpecified ==
    (call.op = "Seed" /\ config.jitter = 0) =>
        LET cols == CeilRoot(num_seeds)
            rows == CeilQuot(num_seeds, cols)
        IN  /\ call.seed_id = call.row * cols + call.col
            /\ call.seed_id = Len(seeds) - 1
            /\ call.seed_id < num_seeds
            /\ call.center = FloorPoint(screen_pixels.width, screen_pixels.height,
                                        cols, rows, call.row, call.col)

\* grow_seeds has exactly num_seeds seeds with ids 0..num_seeds-1 when the loops end
SeedsAsCounted ==
    pc = "check" =>
        /\ Len(seeds) = num_seeds
        /\ \A i \in 1..Len(seeds) : seeds[i].seed_id = i - 1

\* C29: for every num_seeds >= 1 exactly num_seeds seeds are created with ids
\* 0..num_seeds-1 in row-major order on the grid of ceil(sqrt(num_seeds)) columns and
\* ceil(num_seeds / cols) rows, the seed at (row, col) having the grid point
\* (floor((col+1)*W/(cols+1)), floor((row+1)*H/(rows+1))) when jitter = 0, and no cell
\* beyond the first num_seeds gets a seed
C29_SeedGrid == CellAsSpecified /\ SeedsAsCounted

\* p is the midpoint of [lo, hi) up to integer rounding
IsMidpoint(p, lo, hi) == lo + hi - 2 * p \in (0 - 2)..2

\* C30: each seed's initial rectangle is centred at its (jittered, clamped) grid
\* point: the grid point is the midpoint of [x1, x2) and of [y1, y2) up to integer
\* rounding, and the width is the initial height parameter times the aspect ratio
C30_InitialRectCentred ==
    call.op = "Seed" =>
        /\ IsMidpoint(call.center[1], ret.x1, ret.x2)
        /\ IsMidpoint(call.center[2], ret.y1, ret.y2)
        /\ ret.x2 - ret.x1 = IntTrunc(initial_size * AspectNum, AspectDen)


\* ------------------------------------------------------------------ the comparators alone
\* the bands the comparators are applied to: short and long, empty and not, on the
\* frame with the blue square
MaxBandHeight == MaxWallThickness
ProbeFrame == Frame(12, 9, <<3, 2, 9, 7>>, Blue)
ProbeBands ==
    {Band(<<a, a + h>>, <<c, c + w>>) :
        a \in {0, 1, 6}, h \in 0..MaxBandHeight, c \in {1, 8}, w \in {0, 1, 2, 4}}

CompareCall(variant, current_pixels, next_pixels, sample_rate) ==
    [op |-> "compare", variant |-> variant, frame |-> ProbeFrame,
     current |-> current_pixels, next |-> next_pixels, sample_rate |-> sample_rate]

\* one call per state: the average comparator at every sample rate, the corner
\* comparators (which ignore sample_rate) at 1
CompareInit ==
    /\ \E b1 \in ProbeBands, b2 \in ProbeBands :
        \/ \E s \in 1..MaxSampleRate : call = CompareCall("average", b1, b2, s)
        \/ \E v \in {"horizontal", "vertical"} : call = CompareCall(v, b1, b2, 1)
    /\ ret = NoRet
    /\ program = "adaptive" /\ monitoring = TRUE /\ camera = "none" /\ window_alive = TRUE
    /\ mon_pc = "idle" /\ screen_capture = NoCapture /\ previous_hashes = NoHashes
    /\ reported = NoRect /\ change_threshold = 50 /\ last_frame = NoFrame
    /\ last_iter = NoIteration /\ handoff = <<>> /\ presented = NoRect
    /\ GrowIdle

\* compare_avg_color_numba(current_pixels, next_pixels, sample_rate)
ApplyAverage ==
    /\ call.op = "compare" /\ call.variant = "average" /\ ret = NoRet
    /\ ret' = [value |-> compare_avg_color_numba(call.frame, call.current, call.next,
                                                 call.sample_rate)]
    /\ UNCHANGED <<loopVars, call, growVars>>

\* compare_corner_horizontal_numba(current_pixels, next_pixels, sample_rate)
ApplyCornerHorizontal ==
    /\ call.op = "compare" /\ call.variant = "horizontal" /\ ret = NoRet
    /\ \E undef \in BOOLEAN :
        ret' = [value |-> compare_corner_horizontal_numba(call.frame, call.current,
                                                          call.next, undef)]
    /\ UNCHANGED <<loopVars, call, growVars>>

\* compare_corner_vertical_numba(current_pixels, next_pixels, sample_rate)
ApplyCornerVertical ==
    /\ call.op = "compare" /\ call.variant = "vertical" /\ ret = NoRet
    /\ \E undef \in BOOLEAN :
        ret' = [value |-> compare_corner_vertical_numba(call.frame, call.current,
                                                        call.next, undef)]
    /\ UNCHANGED <<loopVars, call, growVars>>

CompareNext == ApplyAverage \/ ApplyCornerHorizontal \/ ApplyCornerVertical
CompareSpec == CompareInit /\ [][CompareNext]_vars

\* ------------------------------------------------------------------ C31
\* the pixels of a band taken at every sample_rate-th row and column from its corner
Sampled(b, sample_rate) ==
    {p \in (b.cols[1]..(b.cols[2] - 1)) \X (b.rows[1]..(b.rows[2] - 1)) :
        (p[1] - b.cols[1]) % sample_rate = 0 /\ (p[2] - b.rows[1]) % sample_rate = 0}

\* floor(sum / count) of one channel over the sampled pixels of a frame of two colours
FloorAvg(f, b, sample_rate, ch) ==
    LET pts == Sampled(b, sample_rate)
        lit == {p \in pts : Pixel(f, p[1], p[2]) = f.fg}
    IN  (Cardinality(lit) * f.fg[ch] + Cardinality(pts \ lit) * f.bg[ch]) \div Cardinality(pts)

AverageApplied == call.op = "compare" /\ call.variant = "average" /\ ret # NoRet

\* C31: on bands with at least one sampled pixel the average comparator returns true
\* exactly when floor(sum / count) over the pixels sampled at the stride differs in
\* some channel; the result is the same for every wall and with the bands swapped
C31_AverageComparator ==
    AverageApplied =>
        /\ (Sampled(call.current, call.sample_rate) # {} /\ Sampled(call.next, call.sample_rate) # {})
            => (ret.value <=> \E ch \in 1..3 :
                    FloorAvg(call.frame, call.current, call.sample_rate, ch)
                        # FloorAvg(call.frame, call.next, call.sample_rate, ch))
        /\ ret.value = compare_avg_color_numba(call.frame, call.next, call.current, call.sample_rate)
        /\ \A wall \in {"top", "bottom", "left", "right"} :
            ret.value = compare_func(call.frame,
                                     [color_mode |-> "average", pixel_sample_rate |-> call.sample_rate],
                                     wall, call.current, call.next, FALSE)

\* a comparison at stride 2 that returns true where every pixel's average is equal
C31_Witness ==
    /\ AverageApplied
    /\ call.sample_rate = 2
    /\ ret.value
    /\ \A ch \in 1..3 : FloorAvg(call.frame, call.current, 1, ch) = FloorAvg(call.frame, call.next, 1, ch)


\* ------------------------------------------------------------------ thick walls
\* passes whose wall_thickness exceeds the height of a new seed, on the small frame
\* with the blue square; jitter moves the seed up to the frame's top edge
ThickInputs ==
    {Input(fz[1], fz[2], MakeConfig(1, initial_size + 1, m, MaxJitter, 1, 1), 1) :
        fz \in {gz \in FrameZones : gz[1].width = 12}, m \in ColorModes}

ThickWallInit == InitWith(ThickInputs)
ThickWallSpec == ThickWallInit /\ [][Next]_vars

\* ------------------------------------------------------------------ C32
BandIsEmpty(b) == BandH(b) = 0 \/ BandW(b) = 0

\* the walls of a seed whose lock is decided by the comparator alone, on an empty band
EmptyBandWalls(s, f, cfg, zone) ==
    {w \in Walls :
        /\ WallIsUnlocked(s, w)
        /\ ~FrameLock(s, f, cfg, w) /\ ~ZoneLock(s, cfg, zone, w)
        /\ ~NextWallIsNone(s, f, w, cfg.lookahead_pixels)
        /\ \/ BandIsEmpty(get_wall_pixels(s, f, cfg, w))
           \/ BandIsEmpty(get_next_wall_pixels(s, f, cfg, w, cfg.lookahead_pixels))}

\* C32: a comparison with an empty current or next band returns false, in both
\* comparator variants, so the check leaves a wall decided on an empty band unlocked
C32_EmptyBandsNoData ==
    /\ (call.op = "compare" /\ ret # NoRet /\ (BandIsEmpty(call.current) \/ BandIsEmpty(call.next)))
        => ~ret.value
    /\ call.op = "check_and_lock_walls"
        => \A w \in EmptyBandWalls(call.seed, screen_pixels, config, exclusion_zone) :
                WallIsUnlocked(ret, w)

\* the part of C32 about the average comparator
C32_AverageEmptyIsFalse ==
    (call.op = "compare" /\ call.variant = "average" /\ ret # NoRet
        /\ (BandIsEmpty(call.current) \/ BandIsEmpty(call.next)))
        => ~ret.value


\* ------------------------------------------------------------------ C33
InFrame(rect, f) ==
    /\ 0 <= rect[1] /\ rect[1] <= rect[3] /\ rect[3] <= f.width
    /\ 0 <= rect[2] /\ rect[2] <= rect[4] /\ rect[4] <= f.height

\* C33: every rectangle grow_seeds returns lies inside the frame with x1 <= x2 and
\* y1 <= y2, and is reported with the area (x2 - x1) * (y2 - y1)
C33_ReturnedInFrame ==
    pc = "done" =>
        \A k \in 1..Len(result) :
            /\ InFrame(result[k][1], screen_pixels)
            /\ result[k][2] = (result[k][1][3] - result[k][1][1]) * (result[k][1][4] - result[k][1][2])


\* ------------------------------------------------------------------ C34
OppositePairLocked(s) == (s.lock_left /\ s.lock_right) \/ (s.lock_top /\ s.lock_bottom)

\* C34: in every state of the pass a seed with three or more locks has an opposite
\* pair locked, a seed is complete exactly when an opposite pair is locked, and a
\* growing seed has at most two locks
C34_ThreeLocksImplyPair ==
    \A i \in 1..Len(seeds) :
        /\ LockCount(seeds[i]) >= 3 => OppositePairLocked(seeds[i])
        /\ seeds[i].growth_complete <=> OppositePairLocked(seeds[i])
        /\ ~seeds[i].growth_complete => LockCount(seeds[i]) <= 2

\* a check that set exactly three locks, completing a seed, and another seed that is
\* still growing with two adjacent locks
C34_Witness ==
    /\ call.op = "check_and_lock_walls"
    /\ LockCount(call.seed) < 3 /\ LockCount(ret) = 3 /\ ret.growth_complete
    /\ \E i \in 1..Len(seeds) :
        ~seeds[i].growth_complete /\ LockCount(seeds[i]) = 2


\* ------------------------------------------------------------------ C35
\* C35: every check_and_lock_walls and grow call leaves the coordinate of each wall
\* that was locked when it was called as it was (y1 for top, y2 for bottom, x1 for
\* left, x2 for right), frame clamping and exclusion-zone clipping included
C35_LockedWallFixed ==
    call.op \in {"check_and_lock_walls", "grow"} =>
        \A w \in Walls :
            ~WallIsUnlocked(call.seed, w) => WallPos(ret, w) = WallPos(call.seed, w)

\* the same for the seeds that lie inside the frame when grow is called
C35_LockedWallFixedInFrame ==
    (call.op = "grow" /\ InFrame(get_coords(call.seed), screen_pixels)) =>
        \A w \in Walls :
            ~WallIsUnlocked(call.seed, w) => WallPos(ret, w) = WallPos(call.seed, w)


\* ------------------------------------------------------------------ C36
\* the seed's columns [x1, x2) share no column with the zone's [ex_x1, ex_x2)
ColsApart(s, zone) == s.x2 <= zone[1] \/ s.x1 >= zone[3]
\* the seed's rows [y1, y2) share no row with the zone's [ex_y1, ex_y2)
RowsApart(s, zone) == s.y2 <= zone[2] \/ s.y1 >= zone[4]

\* C36: a check of a seed that shares no column with the exclusion zone locks its top
\* and bottom walls as it would with no zone, and one that shares no row its left and
\* right walls; a grow of a seed that shares no column (row) with the zone, before
\* and after its step, leaves y1 and y2 (x1 and x2) as it would with no zone
C36_ZoneOnlyInReach ==
    exclusion_zone # NoZone =>
        /\ call.op = "check_and_lock_walls" =>
            LET free == check_and_lock_walls(call.seed, screen_pixels, config, NoZone, call.undef)
            IN  /\ ColsApart(call.seed, exclusion_zone)
                    => ret.lock_top = free.lock_top /\ ret.lock_bottom = free.lock_bottom
                /\ RowsApart(call.seed, exclusion_zone)
                    => ret.lock_left = free.lock_left /\ ret.lock_right = free.lock_right
        /\ call.op = "grow" =>
            LET free == grow(call.seed, screen_pixels, config, NoZone)
            IN  /\ (ColsApart(call.seed, exclusion_zone) /\ ColsApart(free, exclusion_zone))
                    => ret.y1 = free.y1 /\ ret.y2 = free.y2
                /\ (RowsApart(call.seed, exclusion_zone) /\ RowsApart(free, exclusion_zone))
                    => ret.x1 = free.x1 /\ ret.x2 = free.x2


\* ------------------------------------------------------------------ the PIP browser's UI calls
\* `self.monitor_thread is not None and self.monitor_thread.is_alive()`
ThreadAlive(thread_pc) == thread_pc \notin {"idle", "exited"}

\* a test that never finds a live thread
StartNeverReturnsEarly(thread_pc) == FALSE

\* line 673-674: start_screen_monitoring returns at once when the thread is alive
StartReturnsEarly(thread_pc) == ThreadAlive(thread_pc)

\* a release that keeps the handle in self.camera
ReleasedOnly(cam) == IF cam = "none" THEN "none" ELSE "released"

\* lines 982-988: under the lock, release the camera and set self.camera = None
ReleasedUnderLock(cam) == "none"

UiCall(op) == [op |-> op]

\* PIPVideoBrowser.start_screen_monitoring, lines 671-693, called by set_compact_mode
\* (toggle_mode, handle_fullscreen_request): the early return, the flag, the camera
\* (created when there is none, which may fail) and the new thread
start_screen_monitoring ==
    /\ program = "pip" /\ window_alive
    /\ call' = UiCall("start_screen_monitoring")
    /\ IF StartReturnsEarly(mon_pc) THEN
          /\ ret' = [created |-> FALSE, alive_before |-> TRUE]
          /\ UNCHANGED <<monitoring, camera, mon_pc>>
       ELSE
          /\ monitoring' = TRUE
          /\ \/ /\ camera' = "open" /\ mon_pc' = "init"
                /\ ret' = [created |-> TRUE, alive_before |-> ThreadAlive(mon_pc)]
             \/ /\ camera = "none" /\ camera' = "none" /\ mon_pc' = mon_pc
                /\ ret' = [created |-> FALSE, alive_before |-> ThreadAlive(mon_pc)]
    /\ UNCHANGED <<program, window_alive, screen_capture, previous_hashes, reported,
                   change_threshold, last_frame, last_iter, handoff, presented, growVars>>

\* PIPVideoBrowser.stop_screen_monitoring, lines 759-772, called by set_maximized_mode
stop_screen_monitoring ==
    /\ program = "pip" /\ window_alive
    /\ call' = UiCall("stop_screen_monitoring")
    /\ ret' = [thread_pc |-> mon_pc]
    /\ monitoring' = FALSE
    /\ UNCHANGED <<program, camera, window_alive, mon_pc, screen_capture, previous_hashes,
                   reported, change_threshold, last_frame, last_iter, handoff, presented,
                   growVars>>

\* PIPVideoBrowser.closeEvent, lines 974-988
closeEvent ==
    /\ program = "pip" /\ window_alive
    /\ call' = UiCall("closeEvent")
    /\ ret' = [thread_pc |-> mon_pc]
    /\ monitoring' = FALSE
    /\ window_alive' = FALSE
    /\ camera' = ReleasedUnderLock(camera)
    /\ UNCHANGED <<program, mon_pc, screen_capture, previous_hashes, reported,
                   change_threshold, last_frame, last_iter, handoff, presented, growVars>>

PipInit == MonInit /\ program = "pip" /\ change_threshold = 50

PipNext ==
    \/ start_screen_monitoring \/ stop_screen_monitoring \/ closeEvent \/ Deliver
    \/ PipLoopInit \/ LoopTest \/ LoopCapture \/ LoopProcess \/ SearchStep \/ LoopStore

PipSpec == PipInit /\ [][PipNext]_vars

\* ------------------------------------------------------------------ C37
\* C37: from the return of start_screen_monitoring with a camera available until the
\* next stop, monitoring_enabled is true and a monitor loop thread was alive when the
\* call returned
C37_RestartAfterStop ==
    (call.op = "start_screen_monitoring" /\ camera = "open") =>
        /\ monitoring
        /\ ret.created \/ ret.alive_before


\* ------------------------------------------------------------------ C38
\* how far an iteration of the loop has got after its capture
PastCapture(thread_pc) == thread_pc \in {"captured", "searching", "store"}

\* C38: the PIP monitor thread captures only from a camera that is open, and once
\* closeEvent has released the camera the thread makes no further capture: it works
\* on a frame only if it had captured it before the release
C38_NoGrabAfterReleasePip ==
    program = "pip" =>
        /\ screen_capture # NoCapture => screen_capture.handle = "open"
        /\ call.op = "closeEvent" =>
            /\ PastCapture(mon_pc) => PastCapture(ret.thread_pc)
            /\ mon_pc = "loop" => (ret.thread_pc = "loop" \/ PastCapture(ret.thread_pc))
            /\ mon_pc \notin {"init", "grab"} \/ mon_pc = ret.thread_pc

\* the window was closed while the thread was about to capture, and the thread has
\* ended without a capture
C38_Witness ==
    /\ program = "pip"
    /\ call.op = "closeEvent" /\ ret.thread_pc = "grab"
    /\ mon_pc = "exited"
    /\ screen_capture = NoCapture


\* ------------------------------------------------------------------ C39
\* C39: every capture the adaptive monitor thread makes is taken from a camera that
\* run's finally block has not yet released
C39_NoGrabAfterReleaseAdaptive ==
    (program = "adaptive" /\ screen_capture # NoCapture) => screen_capture.handle = "open"


\* ------------------------------------------------------------------ C40
\* C40: start_screen_monitoring creates a monitor thread only when no monitor thread
\* is alive, whatever start and stop calls came before, so at most one thread runs
\* _monitor_loop and writes previous_hashes
C40_SingleMonitorThread ==
    call.op = "start_screen_monitoring" => (ret.created => ~ret.alive_before)

\* a start that created a second thread, after the first one had ended on a stop
C40_Witness ==
    /\ call.op = "start_screen_monitoring"
    /\ ret.created
    /\ previous_hashes # NoHashes
    /\ mon_pc = "init"

====
